---- MODULE Spec2Model ----
(***************************************************************************)
(* State-machine model of assets/js/script.js: the page widgets (tab       *)
(* groups, media modal, theme controller, audio library, stats counter,    *)
(* quotes spotlight, reels feed).  Every widget looks up its own root and  *)
(* returns early when it is absent, so each specification below is the     *)
(* page on which one widget (or one family of widgets) is mounted; the     *)
(* load of a page, from the evaluation of the script to DOMContentLoaded,  *)
(* is a specification of its own.                                          *)
(***************************************************************************)
EXTENDS Integers, Sequences, FiniteSets, TLC

VARIABLES
  page,           \* the widget whose markup the document carries
  \* ---- page load
  readyState,     \* document.readyState
  scriptRun,      \* script.js has been evaluated
  dclListeners,   \* DOMContentLoaded listeners on document, in registration order
  dclFired,       \* DOMContentLoaded has been dispatched
  bootLog,        \* the initializers called so far, in call order
  \* ---- tab groups (initTabs)
  tabTarget,      \* data-tab-target of every .c-tab
  rootPanels,     \* per root: the .c-tab-panel elements root.querySelectorAll finds
  rootsOrder,     \* iteration order of the `roots` Set
  tabIsActive,    \* .c-tab has class is-active
  panelIsVisible, \* .c-tab-panel has class is-visible
  tabsReady,      \* initTabs has run
  \* ---- theme controller
  storageOk,      \* localStorage can be used (FALSE: every access throws)
  storedTheme,    \* localStorage[THEME_STORAGE_KEY]
  systemIsDark,   \* themePrefersDark.matches
  hasToggle,      \* the page has a [data-theme-toggle] control
  dataTheme,      \* html[data-theme]
  bodyIsDark,     \* body has class is-dark
  ariaPressed,    \* aria-pressed of the toggle control
  themeReady,     \* bootTheme and initThemeToggle have run
  bootStored,     \* `stored` as read by bootTheme
  bootSystemIsDark, \* themePrefersDark.matches as bootTheme saw it
  toggleNext,     \* `next` as computed by the last toggle click
  \* ---- media detail modal
  mediaReady,     \* initMediaModals has wired the modal
  mediaHasMount,  \* ui.videoMount exists
  mediaModal,     \* Bootstrap modal: "closed", "opening", "open", "closing"
  mediaMount,     \* child of ui.videoMount (EmptyMount when empty)
  mediaImg,       \* src and alt of ui.img
  mediaText,      \* ui.title, ui.badge, ui.kindChip and ui.durationChip
  mediaFallbackShown, \* ui.fallbackFigure is displayed
  mediaHasVideo,  \* modalEl has class has-video
  \* ---- hero stats counter
  statsReady,     \* initHeroStatsCounter has created the observer
  statsObserving, \* the IntersectionObserver is still connected
  prefersReducedMotion, \* matchMedia("(prefers-reduced-motion: reduce)").matches
  counterData,    \* per counter: data-count-to, data-prefix, data-suffix
  counterText,    \* per counter: el.textContent
  counterTimers,  \* per counter: pending setTimeout callbacks of runAll
  counterFrames,  \* per counter: elapsed time of every tick loop that has a frame pending
  \* ---- quotes spotlight
  quotesReady,    \* initQuotesSpotlight has run for the section
  qHasEmpty,      \* the section has a [data-q-empty] element
  qIsActive,      \* per item: class is-active
  qIsHidden,      \* per item: class u-hide
  qEmptyHidden,   \* emptyState has class u-hide
  qFeatured,      \* text of the featured view and featured.dataset
  qSearchValue,   \* searchInput.value
  qFocus,         \* document.activeElement: "none", "search", "button" or an item's id
  qWrites,        \* navigator.clipboard.writeText promises not settled yet
  qCopyDone,      \* btnCopy has class is-done
  qCopyTimers,    \* pending setTimeout callbacks that remove is-done
  qClipboard,     \* text on the clipboard
  qShared,        \* text last handed to navigator.share
  \* ---- reels modal feed
  rCardIds,         \* per [data-reel-card] element: its data-reel-id ("" when missing)
  rLastGoTo,        \* history: who set the newest pending settle timer: "none", "open"
                    \* or "nav" ("off" where the history is not recorded)
  reelsReady,       \* initReelsModal has attached its listeners
  rModal,           \* Bootstrap modal: "closed", "opening", "open", "closing"
  rBuilt,           \* the track holds one slide (and the dots one dot) per card
  rDataLen,         \* state.dataList.length
  rActiveIndex,     \* state.activeIndex
  rAllowScrollSync, \* state.allowScrollSync
  rPaused,          \* per slide: video.paused
  rDotIsActive,     \* per dot: class is-active
  rSide,            \* sideTitle.textContent
  rScrollTop,       \* viewport.scrollTop, in half slide heights
  rScrollTarget,    \* slide a smooth scroll is moving to (NoSlide when at rest)
  rScrollTimer,     \* the scroll debounce timer is pending
  rSettleTimers,    \* pending 220 ms timers that re-enable scroll sync
  rShownListeners,  \* once-listeners waiting for shown.bs.modal
  rOpenFrames,      \* pending animation frames that call goToIndex(state.activeIndex)
  rPlayFrames,      \* slides whose video has a play() animation frame pending
  rStalePlays,      \* a play() animation frame is pending for a video removed from the track
  rDetachedPlaying, \* a video removed from the track is playing
  \* ---- audio library
  audioReady,     \* initAudioLibrary has wired the rows and the player
  currentRow,     \* currentRow (NoRow when null)
  rowIsActive,    \* per row: class is-active
  rowTime,        \* per row: text of the row's [data-duration] element
  rowDuration,    \* per row: row._duration (Undefined until it is assigned)
  rowBtnIcon,     \* per row: icon of the [data-audio-play] button
  rowThumbIcon,   \* per row: icon of the thumbnail overlay
  probeLoaded,    \* per row: the probe's loadedmetadata listener has run
  playerSrc,      \* playerSource.src (the row whose URL it holds, NoRow when empty)
  playerTitle,    \* row whose details the player panel shows (NoRow: the markup's)
  playerPaused,   \* playerAudio.paused
  playerEnded,    \* playerAudio.ended
  playerTime,     \* playerAudio.currentTime, in seconds
  playerHasMeta,  \* the player has loaded the metadata of its source
  playerEvents,   \* media events queued on the player, oldest first
  rafId,          \* rafId is not null
  tickFrames      \* pending animation frames that call tick

bootVars == <<readyState, scriptRun, dclListeners, dclFired, bootLog>>

tabVars == <<tabTarget, rootPanels, rootsOrder, tabIsActive, panelIsVisible, tabsReady>>

themeVars == <<storageOk, storedTheme, systemIsDark, hasToggle, dataTheme, bodyIsDark,
               ariaPressed, themeReady, bootStored, bootSystemIsDark, toggleNext>>

mediaVars == <<mediaReady, mediaHasMount, mediaModal, mediaMount, mediaImg, mediaText,
               mediaFallbackShown, mediaHasVideo>>

statsVars == <<statsReady, statsObserving, prefersReducedMotion, counterData, counterText,
               counterTimers, counterFrames>>

quotesVars == <<quotesReady, qHasEmpty, qIsActive, qIsHidden, qEmptyHidden, qFeatured,
                qSearchValue, qFocus, qWrites, qCopyDone, qCopyTimers, qClipboard, qShared>>

reelsVars == <<rCardIds, rLastGoTo, reelsReady, rModal, rBuilt, rDataLen, rActiveIndex,
               rAllowScrollSync, rPaused,
               rDotIsActive, rSide, rScrollTop, rScrollTarget, rScrollTimer,
               rSettleTimers, rShownListeners, rOpenFrames, rPlayFrames, rStalePlays,
               rDetachedPlaying>>

audioVars == <<audioReady, currentRow, rowIsActive, rowTime, rowDuration, rowBtnIcon,
               rowThumbIcon, probeLoaded, playerSrc, playerTitle, playerPaused, playerEnded,
               playerTime,
               playerHasMeta, playerEvents, rafId, tickFrames>>

vars == <<page, bootVars, tabVars, themeVars, mediaVars, statsVars, quotesVars, reelsVars,
          audioVars>>

(***************************************************************************)
(* 0) Utilities                                                            *)
(***************************************************************************)

ACTIVATION_KEYS == {"Enter", " "}

\* The DOM events a user can send to a focusable control.
UiEvents == {[type |-> "click", key |-> ""], [type |-> "keydown", key |-> "Enter"],
             [type |-> "keydown", key |-> " "], [type |-> "keydown", key |-> "Tab"]}

\* handleActivation(event, handler): TRUE when the handler is called.
handleActivation(event) ==
  IF event.type = "keydown" THEN event.key \in ACTIVATION_KEYS ELSE TRUE

\* null / undefined / a missing attribute
Null == "<null>"
Truthy(v) == v # Null /\ v # ""

\* String helpers: JavaScript strings are modelled as TLA+ strings.
UpperChars == "ABCDEFGHIJKLMNOPQRSTUVWXYZ"
LowerChars == "abcdefghijklmnopqrstuvwxyz"
CharAt(s, i) == SubSeq(s, i, i)
toLowerCaseChar(c) ==
  IF \E i \in 1..Len(UpperChars) : CharAt(UpperChars, i) = c
    THEN CharAt(LowerChars, CHOOSE i \in 1..Len(UpperChars) : CharAt(UpperChars, i) = c)
    ELSE c
RECURSIVE toLowerCase(_)
toLowerCase(s) ==
  IF Len(s) = 0 THEN "" ELSE toLowerCaseChar(CharAt(s, 1)) \o toLowerCase(SubSeq(s, 2, Len(s)))
\* String.prototype.includes
includes(s, sub) ==
  \E i \in 1..(Len(s) - Len(sub) + 1) : SubSeq(s, i, i + Len(sub) - 1) = sub
\* String.prototype.trim
RECURSIVE trim(_)
trim(s) ==
  IF Len(s) = 0 THEN ""
  ELSE IF CharAt(s, 1) = " " THEN trim(SubSeq(s, 2, Len(s)))
  ELSE IF CharAt(s, Len(s)) = " " THEN trim(SubSeq(s, 1, Len(s) - 1))
  ELSE s

\* safeStorageGet(key): the stored item, null when storage throws.
safeStorageGet(ok, item) == IF ok THEN item ELSE Null

\* safeStorageSet(key, value): the item afterwards.
safeStorageSet(ok, item, value) ==
  IF ~ok THEN item ELSE IF Truthy(value) THEN value ELSE Null

(***************************************************************************)
(* 2) Generic tabs                                                         *)
(***************************************************************************)

NTabs == 2                      \* tabs (and panels) per tab group

TabGroups == {1, 2}
TabsOf(g) == {g} \X (1..NTabs)
PanelsOf(g) == {g} \X (1..NTabs)
AllTabs == TabGroups \X (1..NTabs)
AllPanels == TabGroups \X (1..NTabs)

TabKey(i) == "k" \o ToString(i)
\* data-tab-panel of a panel: the i-th panel of a group is tagged with key i.
PanelKey(p) == TabKey(p[2])
\* Every tab is bound to a key (the markup contract of initTabs).
TabTargets == {TabKey(i) : i \in 1..NTabs}

\* Both groups use the same key names; a root either holds only its own
\* group's panels or, when the outer root was inferred from an ancestor
\* (closest(...) || document.body), the panels of the nested group as well.
RootScopes ==
  { [panels |-> [g \in TabGroups |-> PanelsOf(g)], order |-> <<1, 2>>],
    [panels |-> [g \in TabGroups |-> IF g = 1 THEN AllPanels ELSE PanelsOf(g)],
     order |-> <<1, 2>>],
    [panels |-> [g \in TabGroups |-> IF g = 1 THEN AllPanels ELSE PanelsOf(g)],
     order |-> <<2, 1>>] }

\* Classes written in the markup before any script runs.
MarkupClasses ==
  { [tab |-> [t \in AllTabs |-> FALSE], panel |-> [p \in AllPanels |-> FALSE]],
    [tab |-> [t \in AllTabs |-> t[2] = 1], panel |-> [p \in AllPanels |-> p[2] = 1]] }

\* activateTab(tabEl) of the group g, on the classes cls.
activateTabKeepsOldTab(g, tabEl, cls, target, panels) ==
  IF target[tabEl] = "" THEN cls
  ELSE [tab |-> [t \in AllTabs |-> IF t = tabEl THEN TRUE ELSE cls.tab[t]],
        panel |-> [p \in AllPanels |->
                     IF p \in panels[g] THEN PanelKey(p) = target[tabEl] ELSE cls.panel[p]]]

activateTabAcrossGroups(g, tabEl, cls, target, panels) ==
  IF target[tabEl] = "" THEN cls
  ELSE [tab |-> [t \in AllTabs |-> t = tabEl],
        panel |-> [p \in AllPanels |-> PanelKey(p) = target[tabEl]]]

activateTab(g, tabEl, cls, target, panels) ==
  IF target[tabEl] = "" THEN cls
  ELSE [tab |-> [t \in AllTabs |-> IF t[1] = g THEN t = tabEl ELSE cls.tab[t]],
        panel |-> [p \in AllPanels |->
                     IF p \in panels[g] THEN PanelKey(p) = target[tabEl] ELSE cls.panel[p]]]

\* roots.forEach(...): the first tab of every root is activated, in Set order.
RECURSIVE initTabsFrom(_, _, _, _)
initTabsFrom(order, cls, target, panels) ==
  IF order = <<>> THEN cls
  ELSE initTabsFrom(Tail(order),
                    activateTab(Head(order), <<Head(order), 1>>, cls, target, panels),
                    target, panels)

TabsMounted ==
  /\ tabTarget \in [AllTabs -> TabTargets]
  /\ \E scope \in RootScopes : rootPanels = scope.panels /\ rootsOrder = scope.order
  /\ \E cls \in MarkupClasses : tabIsActive = cls.tab /\ panelIsVisible = cls.panel
  /\ tabsReady = FALSE

\* DOMContentLoaded: initTabs()
InitTabs ==
  /\ page = "tabs"
  /\ ~tabsReady
  /\ LET cls == initTabsFrom(rootsOrder, [tab |-> tabIsActive, panel |-> panelIsVisible],
                             tabTarget, rootPanels)
     IN /\ tabIsActive' = cls.tab
        /\ panelIsVisible' = cls.panel
  /\ tabsReady' = TRUE
  /\ UNCHANGED <<tabTarget, rootPanels, rootsOrder>>
  /\ UNCHANGED <<page, bootVars, themeVars, mediaVars, statsVars, quotesVars, reelsVars,
                 audioVars>>

\* click / keydown listener of one tab
TabEvent(t, event) ==
  /\ tabsReady
  /\ IF handleActivation(event)
       THEN LET cls == activateTab(t[1], t, [tab |-> tabIsActive, panel |-> panelIsVisible],
                                   tabTarget, rootPanels)
            IN /\ tabIsActive' = cls.tab
               /\ panelIsVisible' = cls.panel
       ELSE UNCHANGED <<tabIsActive, panelIsVisible>>
  /\ UNCHANGED <<tabTarget, rootPanels, rootsOrder, tabsReady>>
  /\ UNCHANGED <<page, bootVars, themeVars, mediaVars, statsVars, quotesVars, reelsVars,
                 audioVars>>

TabsNext ==
  \/ InitTabs
  \/ \E t \in AllTabs, event \in UiEvents : TabEvent(t, event)


\* A page without tab groups: initTabs finds no root.
TabsAbsent ==
  /\ tabTarget = [t \in AllTabs |-> TabKey(1)]
  /\ rootPanels = [g \in TabGroups |-> {}]
  /\ rootsOrder = <<>>
  /\ tabIsActive = [t \in AllTabs |-> FALSE]
  /\ panelIsVisible = [p \in AllPanels |-> FALSE]
  /\ tabsReady = FALSE

(***************************************************************************)
(* 5) Media detail modal                                                   *)
(***************************************************************************)

\* Arabic literals of the source are written as ASCII stand-ins.
AR_REEL == "{ar-reel}"
AR_VIDEO == "{ar-video}"
AR_AUDIO == "{ar-audio}"
AR_PHOTO == "{ar-photo}"
AR_MEDIA == "{ar-media}"
AR_DURATION == "{ar-duration}: "
DEFAULT_TITLE == "{ar-media-archive}"
DEFAULT_IMAGE == "assets/img/articles/thumb1.png"

\* data-modal-video values found on triggers ("" = attribute missing)
VideoUrls == {"", "v/a.mp4", "v/a.MP4?t=3", "https://cdn.x/a.mp4", "v/a.webm",
              "https://www.youtube.com/embed/a", "//player.vimeo.com/video/1",
              "https://cdn.x/a.mp4.html"}

\* data-media-type / data-modal-badge pairs found on triggers
MediaKinds == {<<"", "">>, <<"Photo", "">>, <<"", "Video">>, <<"audio", "Video">>,
               <<AR_REEL, "">>, <<"video", "Clip">>}

\* trigger.dataset of the page's [data-media-card] triggers: cards without
\* a media type carry neither image nor title, the others carry both, and
\* the cards with a badge carry a duration.
MediaDatasets ==
  {[modalVideo |-> v, mediaType |-> k[1], modalBadge |-> k[2],
    modalImage |-> IF k[1] = "" THEN "" ELSE "img/p.png",
    modalTitle |-> IF k[1] = "" THEN "" ELSE "T",
    mediaDuration |-> IF k[2] = "" THEN "" ELSE "3:10"] : v \in VideoUrls, k \in MediaKinds}

\* resolveKind(d).key
resolveKind(d) ==
  LET t == toLowerCase(IF d.mediaType # "" THEN d.mediaType ELSE d.modalBadge)
  IN IF includes(t, "reel") \/ includes(t, AR_REEL) THEN "reel"
     ELSE IF includes(t, "video") \/ includes(t, AR_VIDEO) THEN "video"
     ELSE IF includes(t, "audio") \/ includes(t, AR_AUDIO) THEN "audio"
     ELSE IF includes(t, "photo") \/ includes(t, AR_PHOTO) THEN "photo"
     ELSE "media"

\* resolveKind(d).key for the type / badge pairs of the page
kindOf == [k \in MediaKinds |-> resolveKind([mediaType |-> k[1], modalBadge |-> k[2]])]

\* resolveKind(d).label
kindLabel(key) ==
  CASE key = "reel" -> AR_REEL
    [] key = "video" -> AR_VIDEO
    [] key = "audio" -> AR_AUDIO
    [] key = "photo" -> AR_PHOTO
    [] OTHER -> AR_MEDIA

\* /\.mp4(\?|$)/i.test(videoUrl)
isMp4AnywhereInUrl(videoUrl) == includes(toLowerCase(videoUrl), ".mp4")

isMp4(videoUrl) ==
  \E i \in 1..(Len(videoUrl) - 3) :
    /\ toLowerCase(SubSeq(videoUrl, i, i + 3)) = ".mp4"
    /\ (i + 3 = Len(videoUrl) \/ CharAt(videoUrl, i + 4) = "?")

\* /youtube\.com\/embed|player\.vimeo\.com|https?:\/\//i.test(videoUrl) && !isMp4
isEmbed(videoUrl) ==
  LET u == toLowerCase(videoUrl)
  IN /\ \/ includes(u, "youtube.com/embed")
        \/ includes(u, "player.vimeo.com")
        \/ includes(u, "http://")
        \/ includes(u, "https://")
     /\ ~isMp4(videoUrl)

\* isMp4 / isEmbed for the video URLs of the page
urlShape == [v \in VideoUrls |-> [isMp4 |-> isMp4(v), isEmbed |-> isEmbed(v)]]

\* The mount point without a child element
EmptyMount == [tag |-> Null, src |-> "", poster |-> ""]

\* clearMount(): the mount's content afterwards
clearMountKeepsMedia(mount) == mount

clearMount(mount) == EmptyMount

MediaUi ==
  [mount |-> mediaMount, img |-> mediaImg, fallbackShown |-> mediaFallbackShown,
   hasVideo |-> mediaHasVideo]

SetMediaUi(ui) ==
  /\ mediaMount' = ui.mount
  /\ mediaImg' = ui.img
  /\ mediaFallbackShown' = ui.fallbackShown
  /\ mediaHasVideo' = ui.hasVideo

\* renderMedia(d) on the modal elements ui
renderMedia(ui, hasMount, d) ==
  LET poster == IF d.modalImage # "" THEN d.modalImage ELSE DEFAULT_IMAGE
      videoUrl == d.modalVideo
      kind == kindOf[<<d.mediaType, d.modalBadge>>]
      cleared == [ui EXCEPT !.mount = IF hasMount THEN clearMount(ui.mount) ELSE ui.mount,
                            !.img = [src |-> poster,
                                     alt |-> IF d.modalTitle # "" THEN d.modalTitle
                                             ELSE DEFAULT_TITLE]]
  IN IF videoUrl = "" \/ kind = "photo" \/ kind = "audio"
       THEN [cleared EXCEPT !.fallbackShown = TRUE, !.hasVideo = FALSE]
     ELSE IF ~hasMount THEN cleared
     ELSE IF urlShape[videoUrl].isEmbed
       THEN [cleared EXCEPT !.hasVideo = TRUE, !.fallbackShown = FALSE,
                            !.mount = [tag |-> "iframe", src |-> videoUrl, poster |-> ""]]
     ELSE [cleared EXCEPT !.hasVideo = TRUE, !.fallbackShown = FALSE,
                          !.mount = [tag |-> "video", src |-> videoUrl, poster |-> poster]]

\* updateModal(d): the text fields set through safeText (a missing dataset
\* entry is "", and takes the fallback)
updateModalText(d) ==
  [title |-> IF d.modalTitle # "" THEN d.modalTitle ELSE DEFAULT_TITLE,
   badge |-> IF d.modalBadge # "" THEN d.modalBadge
             ELSE kindLabel(kindOf[<<d.mediaType, d.modalBadge>>]),
   kind |-> kindLabel(kindOf[<<d.mediaType, d.modalBadge>>]),
   duration |-> AR_DURATION \o d.mediaDuration,
   durationHidden |-> d.mediaDuration = ""]

MarkupText == [title |-> "", badge |-> "", kind |-> "", duration |-> "", durationHidden |-> FALSE]

\* Bootstrap Modal.show(): ignored while shown or in a transition
ModalShow(m) == IF m = "closed" THEN "opening" ELSE m

MediaMounted ==
  /\ mediaReady = FALSE
  /\ mediaHasMount \in BOOLEAN
  /\ mediaModal = "closed"
  /\ mediaMount = EmptyMount
  /\ mediaImg = [src |-> "", alt |-> ""]
  /\ mediaText = MarkupText
  /\ mediaFallbackShown = TRUE
  /\ mediaHasVideo = FALSE

\* A page without #mediaDetailModal: initMediaModals returns at once.
MediaAbsent ==
  /\ mediaReady = FALSE
  /\ mediaHasMount = FALSE
  /\ mediaModal = "closed"
  /\ mediaMount = EmptyMount
  /\ mediaImg = [src |-> "", alt |-> ""]
  /\ mediaText = MarkupText
  /\ mediaFallbackShown = TRUE
  /\ mediaHasVideo = FALSE

\* DOMContentLoaded: initMediaModals()
InitMediaModals ==
  /\ page = "media"
  /\ ~mediaReady
  /\ mediaReady' = TRUE
  /\ UNCHANGED <<mediaHasMount, mediaModal, mediaMount, mediaImg, mediaText, mediaFallbackShown,
                 mediaHasVideo>>
  /\ UNCHANGED <<page, bootVars, tabVars, themeVars, statsVars, quotesVars, reelsVars,
                 audioVars>>

\* click / keydown on a [data-media-card] trigger: handleTrigger -> updateModal
MediaTrigger(d, event) ==
  /\ mediaReady
  /\ IF event.type = "keydown" /\ event.key \notin {"Enter", " "}
       THEN UNCHANGED <<mediaModal, mediaMount, mediaImg, mediaText, mediaFallbackShown,
                        mediaHasVideo>>
       ELSE /\ mediaText' = updateModalText(d)
            /\ SetMediaUi(renderMedia(MediaUi, mediaHasMount, d))
            /\ mediaModal' = ModalShow(mediaModal)
  /\ UNCHANGED <<mediaReady, mediaHasMount>>
  /\ UNCHANGED <<page, bootVars, tabVars, themeVars, statsVars, quotesVars, reelsVars,
                 audioVars>>

\* Bootstrap: the show transition ends (shown.bs.modal; the once-listener
\* only calls video.load())
MediaShown ==
  /\ mediaModal = "opening"
  /\ mediaModal' = "open"
  /\ UNCHANGED <<mediaReady, mediaHasMount, mediaMount, mediaImg, mediaText, mediaFallbackShown,
                 mediaHasVideo>>
  /\ UNCHANGED <<page, bootVars, tabVars, themeVars, statsVars, quotesVars, reelsVars,
                 audioVars>>

\* Bootstrap: the user dismisses the modal (close button, Esc, backdrop)
MediaDismiss ==
  /\ mediaModal = "open"
  /\ mediaModal' = "closing"
  /\ UNCHANGED <<mediaReady, mediaHasMount, mediaMount, mediaImg, mediaText, mediaFallbackShown,
                 mediaHasVideo>>
  /\ UNCHANGED <<page, bootVars, tabVars, themeVars, statsVars, quotesVars, reelsVars,
                 audioVars>>

\* hidden.bs.modal listener
MediaHidden ==
  /\ mediaModal = "closing"
  /\ mediaModal' = "closed"
  /\ mediaMount' = IF mediaHasMount THEN clearMount(mediaMount) ELSE mediaMount
  /\ mediaFallbackShown' = TRUE
  /\ UNCHANGED <<mediaReady, mediaHasMount, mediaImg, mediaText, mediaHasVideo>>
  /\ UNCHANGED <<page, bootVars, tabVars, themeVars, statsVars, quotesVars, reelsVars,
                 audioVars>>

MediaNext ==
  \/ InitMediaModals
  \/ \E d \in MediaDatasets, event \in UiEvents : MediaTrigger(d, event)
  \/ MediaShown
  \/ MediaDismiss
  \/ MediaHidden

(***************************************************************************)
(* 8) Theme toggle                                                         *)
(***************************************************************************)

ThemePreferences == {"light", "dark", "system"}

\* applyColorTheme(variant, {persist}) on the theme state th.
applyColorThemeDropsAttribute(th, variant, persist) ==
  LET effective == IF variant = "system"
                     THEN (IF th.systemIsDark THEN "dark" ELSE "light")
                     ELSE variant
      isDark == effective = "dark"
  IN [th EXCEPT !.dataTheme = IF isDark THEN "dark" ELSE Null,
                !.bodyIsDark = isDark,
                !.ariaPressed = IF th.hasToggle THEN isDark ELSE th.ariaPressed,
                !.storedTheme = IF persist
                                  THEN safeStorageSet(th.storageOk, th.storedTheme, variant)
                                  ELSE th.storedTheme]

\* applyColorTheme without the call of updateThemeToggleVisual
applyColorThemeSkipsToggleVisual(th, variant, persist) ==
  LET effective == IF variant = "system"
                     THEN (IF th.systemIsDark THEN "dark" ELSE "light")
                     ELSE variant
      isDark == effective = "dark"
  IN [th EXCEPT !.dataTheme = IF variant = "system" THEN Null ELSE variant,
                !.bodyIsDark = isDark,
                !.storedTheme = IF persist
                                  THEN safeStorageSet(th.storageOk, th.storedTheme, variant)
                                  ELSE th.storedTheme]

applyColorTheme(th, variant, persist) ==
  LET effective == IF variant = "system"
                     THEN (IF th.systemIsDark THEN "dark" ELSE "light")
                     ELSE variant
      isDark == effective = "dark"
  IN [th EXCEPT !.dataTheme = IF variant = "system" THEN Null ELSE variant,
                !.bodyIsDark = isDark,
                !.ariaPressed = IF th.hasToggle THEN isDark ELSE th.ariaPressed,
                !.storedTheme = IF persist
                                  THEN safeStorageSet(th.storageOk, th.storedTheme, variant)
                                  ELSE th.storedTheme]

\* handleSystemThemeChange(): the theme state after the handler.
handleSystemThemeChangeIgnoresStored(th) == applyColorTheme(th, "system", FALSE)

handleSystemThemeChangeStoresResolved(th) ==
  LET stored == safeStorageGet(th.storageOk, th.storedTheme)
  IN IF Truthy(stored) /\ stored # "system" THEN th
     ELSE applyColorTheme(th, IF th.systemIsDark THEN "dark" ELSE "light", TRUE)

handleSystemThemeChange(th) ==
  LET stored == safeStorageGet(th.storageOk, th.storedTheme)
  IN IF Truthy(stored) /\ stored # "system" THEN th
     ELSE applyColorTheme(th, "system", FALSE)

ThemeState ==
  [storageOk |-> storageOk, storedTheme |-> storedTheme, systemIsDark |-> systemIsDark,
   hasToggle |-> hasToggle, dataTheme |-> dataTheme, bodyIsDark |-> bodyIsDark,
   ariaPressed |-> ariaPressed]

SetThemeState(th) ==
  /\ storedTheme' = th.storedTheme
  /\ dataTheme' = th.dataTheme
  /\ bodyIsDark' = th.bodyIsDark
  /\ ariaPressed' = th.ariaPressed

ThemeMounted ==
  /\ storageOk \in BOOLEAN
  /\ storedTheme \in (IF storageOk THEN ThemePreferences \cup {Null} ELSE {Null})
  /\ systemIsDark \in BOOLEAN
  /\ hasToggle \in BOOLEAN
  /\ dataTheme = Null
  /\ bodyIsDark = FALSE
  /\ ariaPressed = Null
  /\ themeReady = FALSE
  /\ bootStored = Null
  /\ bootSystemIsDark = FALSE
  /\ toggleNext = Null

\* The theme state of a page on which another widget is under study.
ThemeQuiet ==
  /\ storageOk = TRUE
  /\ storedTheme = Null
  /\ systemIsDark = FALSE
  /\ hasToggle = FALSE
  /\ dataTheme = Null
  /\ bodyIsDark = FALSE
  /\ ariaPressed = Null
  /\ themeReady = FALSE
  /\ bootStored = Null
  /\ bootSystemIsDark = FALSE
  /\ toggleNext = Null

\* bootTheme() ... initThemeToggle(): what they do to the theme state
BootThemeEffects ==
  /\ LET stored == safeStorageGet(storageOk, storedTheme)
         initial == IF Truthy(stored) THEN stored ELSE "system"
     IN /\ bootStored' = stored
        /\ bootSystemIsDark' = systemIsDark
        /\ SetThemeState(applyColorTheme(ThemeState, initial, FALSE))
  /\ themeReady' = TRUE
  /\ UNCHANGED <<storageOk, systemIsDark, hasToggle, toggleNext>>

\* DOMContentLoaded: bootTheme() ... initThemeToggle()
BootTheme ==
  /\ page = "theme"
  /\ ~themeReady
  /\ BootThemeEffects
  /\ UNCHANGED <<page, bootVars, tabVars, mediaVars, statsVars, quotesVars, reelsVars,
                 audioVars>>

\* isCurrentlyDark, as the toggle's click listener computes it
isCurrentlyDark(th) == th.dataTheme = "dark" \/ (th.dataTheme = Null /\ th.systemIsDark)

\* the toggle's click listener: the theme state afterwards
toggleClick(th) ==
  applyColorTheme(th, IF isCurrentlyDark(th) THEN "light" ELSE "dark", TRUE)

\* click on [data-theme-toggle]
ToggleTheme ==
  /\ themeReady
  /\ hasToggle
  /\ toggleNext' = IF isCurrentlyDark(ThemeState) THEN "light" ELSE "dark"
  /\ SetThemeState(toggleClick(ThemeState))
  /\ UNCHANGED <<storageOk, systemIsDark, hasToggle, themeReady, bootStored, bootSystemIsDark>>
  /\ UNCHANGED <<page, bootVars, tabVars, mediaVars, statsVars, quotesVars, reelsVars,
                 audioVars>>

\* The OS colour scheme changes; after bootTheme the "change" listener runs.
SystemThemeChange ==
  /\ systemIsDark' = ~systemIsDark
  /\ IF themeReady
       THEN SetThemeState(handleSystemThemeChange(
                            [ThemeState EXCEPT !.systemIsDark = ~systemIsDark]))
       ELSE UNCHANGED <<storedTheme, dataTheme, bodyIsDark, ariaPressed>>
  /\ UNCHANGED <<storageOk, hasToggle, themeReady, bootStored, bootSystemIsDark, toggleNext>>
  /\ UNCHANGED <<page, bootVars, tabVars, mediaVars, statsVars, quotesVars, reelsVars,
                 audioVars>>

ThemeNext == BootTheme \/ ToggleTheme \/ SystemThemeChange

(***************************************************************************)
(* 12) Audio library                                                       *)
(***************************************************************************)

NRows == 2                      \* [data-audio-item] rows of the list
MaxEvents == 2                  \* queued media events when the user acts again

Rows == 1..NRows
NoRow == 0
Undefined == 0 - 1
TimeStep == 30
PLACEHOLDER == "--:--"

\* row.dataset.audio of the page's rows ("" = attribute missing)
RowUrl(r) == IF r % 3 = 0 THEN "" ELSE "audio/t" \o ToString(r) \o ".mp3"

\* duration, in seconds, of the track behind a row's URL
TrackDuration(r) == IF r % 2 = 0 THEN 30 ELSE 30 * (r + 1)

\* String(ss).padStart(2, "0")
padStart2(n) == IF n < 10 THEN "0" \o ToString(n) ELSE ToString(n)

\* formatTime(s)
formatTimeWithoutGuard(t) == ToString(t \div 60) \o ":" \o padStart2(t % 60)

formatTime(t) ==
  IF t = Undefined \/ t < 0 THEN PLACEHOLDER
  ELSE ToString(t \div 60) \o ":" \o padStart2(t % 60)

\* setRowActive(row)
setRowActiveKeepsOthers(isActive, row) == [r \in Rows |-> isActive[r] \/ r = row]

setRowActive(isActive, row) == [r \in Rows |-> r = row]

\* updateRowPlayIcons(isPlaying) / updateThumbOverlayIcons(isPlaying)
updateIcons(current, isPlaying) ==
  [r \in Rows |-> IF r = current /\ isPlaying THEN "fa-pause" ELSE "fa-play"]

\* setRowTimeToDuration(row): the rows' time texts afterwards
setRowTimeToDurationSkips(times, durations, row) == times

setRowTimeToDuration(times, durations, row) ==
  IF row = NoRow THEN times ELSE [times EXCEPT ![row] = formatTime(durations[row])]

\* playerAudio.play(): state of the player afterwards; the browser may
\* reject the request, which leaves the player as it is
PlayerState ==
  [paused |-> playerPaused, ended |-> playerEnded, time |-> playerTime,
   events |-> playerEvents]

SetPlayerState(ps) ==
  /\ playerPaused' = ps.paused
  /\ playerEnded' = ps.ended
  /\ playerTime' = ps.time
  /\ playerEvents' = ps.events

mediaPlay(ps, allowed) ==
  IF ~allowed THEN ps
  ELSE [paused |-> FALSE, ended |-> FALSE,
        time |-> IF ps.ended THEN 0 ELSE ps.time,
        events |-> IF ps.paused THEN Append(ps.events, "play") ELSE ps.events]

\* playerAudio.pause()
mediaPause(ps) ==
  IF ps.paused THEN ps ELSE [ps EXCEPT !.paused = TRUE, !.events = Append(@, "pause")]

\* playerAudio.load(): playback stops without a pause event, the position
\* is reset and the events still queued on the element are dropped
mediaLoad(ps) == [paused |-> TRUE, ended |-> FALSE, time |-> 0, events |-> <<>>]

AudioQuiet ==
  /\ audioReady = FALSE
  /\ currentRow = NoRow
  /\ rowTime = [r \in Rows |-> PLACEHOLDER]
  /\ rowDuration = [r \in Rows |-> Undefined]
  /\ rowBtnIcon = [r \in Rows |-> "fa-play"]
  /\ rowThumbIcon = [r \in Rows |-> "fa-play"]
  /\ probeLoaded = [r \in Rows |-> FALSE]
  /\ playerSrc = NoRow
  /\ playerTitle = NoRow
  /\ playerPaused = TRUE
  /\ playerEnded = FALSE
  /\ playerTime = 0
  /\ playerHasMeta = FALSE
  /\ playerEvents = <<>>
  /\ rafId = FALSE
  /\ tickFrames = 0

\* The markup marks at most one row is-active.
AudioMounted ==
  /\ AudioQuiet
  /\ rowIsActive \in {[r \in Rows |-> r = a] : a \in 0..NRows}

\* A page without [data-audio-list]: initAudioLibrary returns at once.
AudioAbsent ==
  /\ AudioQuiet
  /\ rowIsActive = [r \in Rows |-> FALSE]

\* DOMContentLoaded: initAudioLibrary() wires the rows and creates the probes
InitAudioLibrary ==
  /\ page = "audio"
  /\ ~audioReady
  /\ audioReady' = TRUE
  /\ UNCHANGED <<currentRow, rowIsActive, rowTime, rowDuration, rowBtnIcon, rowThumbIcon,
                 probeLoaded, playerSrc, playerTitle, playerPaused, playerEnded, playerTime,
                 playerHasMeta,
                 playerEvents, rafId, tickFrames>>
  /\ UNCHANGED <<page, bootVars, tabVars, themeVars, mediaVars, statsVars, quotesVars,
                 reelsVars>>

\* The audio state loadAndPlayRow reads and writes; media is the row whose
\* resource playerAudio holds: between two handlers, the one of its source
AudioState ==
  [currentRow |-> currentRow, isActive |-> rowIsActive, times |-> rowTime,
   durations |-> rowDuration, src |-> playerSrc, media |-> playerSrc,
   title |-> playerTitle, hasMeta |-> playerHasMeta, player |-> PlayerState]

SetAudioState(st) ==
  /\ currentRow' = st.currentRow
  /\ rowIsActive' = st.isActive
  /\ rowTime' = st.times
  /\ playerSrc' = st.src
  /\ playerTitle' = st.title
  /\ playerHasMeta' = st.hasMeta
  /\ SetPlayerState(st.player)

\* loadAndPlayRow(row) for a row other than currentRow, statement by
\* statement: the state after each statement, in program order
switchStatements(st, row, allowed) ==
  LET s1 == [st EXCEPT !.times = setRowTimeToDuration(st.times, st.durations, st.currentRow)]
      s2 == [s1 EXCEPT !.currentRow = row]
      s3 == [s2 EXCEPT !.isActive = setRowActive(s2.isActive, row)]
      s4 == [s3 EXCEPT !.title = row]
      s5 == [s4 EXCEPT !.src = row]
      s6 == [s5 EXCEPT !.media = s5.src, !.hasMeta = FALSE,
                       !.player = mediaLoad(s5.player)]
      s7 == [s6 EXCEPT !.player = mediaPlay(s6.player, allowed)]
  IN <<s1, s2, s3, s4, s5, s6, s7>>

\* loadAndPlayRow(row) up to its await, for a row with a URL
loadAndPlayRowAlwaysSwitches(st, row, allowed) == switchStatements(st, row, allowed)[7]

\* loadAndPlayRow that returns before playerSource.src = url
loadAndPlayRowKeepsSource(st, row, allowed) ==
  IF st.currentRow = row
    THEN [st EXCEPT !.player = IF ~st.player.paused /\ ~st.player.ended
                                 THEN mediaPause(st.player)
                                 ELSE mediaPlay(st.player, allowed)]
    ELSE switchStatements(st, row, allowed)[4]

loadAndPlayRow(st, row, allowed) ==
  IF st.currentRow = row
    THEN [st EXCEPT !.player = IF ~st.player.paused /\ ~st.player.ended
                                 THEN mediaPause(st.player)
                                 ELSE mediaPlay(st.player, allowed)]
    ELSE switchStatements(st, row, allowed)[7]

\* click on a row or its play button, keydown on a row: loadAndPlayRow(row)
\* up to its await; `allowed` is whether the browser accepts play()
AudioRowEvent(row, event, allowed) ==
  /\ audioReady
  /\ Len(playerEvents) < MaxEvents
  /\ IF (event.type = "keydown" /\ event.key \notin ACTIVATION_KEYS) \/ RowUrl(row) = ""
       THEN UNCHANGED <<currentRow, rowIsActive, rowTime, playerSrc, playerTitle, playerPaused,
                        playerEnded, playerTime, playerHasMeta, playerEvents>>
       ELSE SetAudioState(loadAndPlayRow(AudioState, row, allowed))
  /\ UNCHANGED <<audioReady, rowDuration, rowBtnIcon, rowThumbIcon, probeLoaded, rafId,
                 tickFrames>>
  /\ UNCHANGED <<page, bootVars, tabVars, themeVars, mediaVars, statsVars, quotesVars,
                 reelsVars>>

\* the probe of a row fires loadedmetadata (it may never do so)
ProbeLoadedMetadata(row) ==
  /\ audioReady
  /\ RowUrl(row) # ""
  /\ ~probeLoaded[row]
  /\ probeLoaded' = [probeLoaded EXCEPT ![row] = TRUE]
  /\ rowDuration' = [rowDuration EXCEPT ![row] = TrackDuration(row)]
  /\ rowTime' = IF row # currentRow THEN setRowTimeToDuration(rowTime, rowDuration', row)
                ELSE rowTime
  /\ UNCHANGED <<audioReady, currentRow, rowIsActive, rowBtnIcon, rowThumbIcon, playerSrc,
                 playerTitle, playerPaused, playerEnded, playerTime, playerHasMeta,
                 playerEvents, rafId,
                 tickFrames>>
  /\ UNCHANGED <<page, bootVars, tabVars, themeVars, mediaVars, statsVars, quotesVars,
                 reelsVars>>

\* the browser has fetched the metadata of the player's source and queues
\* loadedmetadata
PlayerFetchesMetadata ==
  /\ playerSrc # NoRow
  /\ ~playerHasMeta
  /\ playerHasMeta' = TRUE
  /\ playerEvents' = Append(playerEvents, "loadedmetadata")
  /\ UNCHANGED <<audioReady, currentRow, rowIsActive, rowTime, rowDuration, rowBtnIcon,
                 rowThumbIcon, probeLoaded, playerSrc, playerTitle, playerPaused,
                 playerEnded, playerTime,
                 rafId, tickFrames>>
  /\ UNCHANGED <<page, bootVars, tabVars, themeVars, mediaVars, statsVars, quotesVars,
                 reelsVars>>

\* playback advances; at the end of the track the browser pauses the
\* element and queues pause and ended
PlayerAdvances ==
  /\ playerSrc # NoRow
  /\ playerHasMeta
  /\ ~playerPaused /\ ~playerEnded
  /\ LET t == playerTime + TimeStep
         d == TrackDuration(playerSrc)
     IN IF t < d
          THEN /\ playerTime' = t
               /\ UNCHANGED <<playerPaused, playerEnded, playerEvents>>
          ELSE /\ playerTime' = d
               /\ playerPaused' = TRUE
               /\ playerEnded' = TRUE
               /\ playerEvents' = playerEvents \o <<"pause", "ended">>
  /\ UNCHANGED <<audioReady, currentRow, rowIsActive, rowTime, rowDuration, rowBtnIcon,
                 rowThumbIcon, probeLoaded, playerSrc, playerTitle, playerHasMeta, rafId,
                 tickFrames>>
  /\ UNCHANGED <<page, bootVars, tabVars, themeVars, mediaVars, statsVars, quotesVars,
                 reelsVars>>

\* stopActiveTicker(): pending frames afterwards
stopActiveTickerKeepsFrame(hasId, frames) == frames

stopActiveTicker(hasId, frames) == IF hasId /\ frames > 0 THEN frames - 1 ELSE frames

\* the oldest queued media event reaches its listener on playerAudio
PlayerEvent ==
  /\ playerEvents # <<>>
  /\ playerEvents' = Tail(playerEvents)
  /\ LET e == Head(playerEvents)
     IN CASE e = "loadedmetadata" ->
               /\ rowDuration' = IF currentRow # NoRow
                                   THEN [rowDuration EXCEPT ![currentRow] =
                                           TrackDuration(playerSrc)]
                                   ELSE rowDuration
               /\ UNCHANGED <<rowTime, rowBtnIcon, rowThumbIcon, rafId, tickFrames>>
          [] e = "play" ->
               /\ rowBtnIcon' = updateIcons(currentRow, TRUE)
               /\ rowThumbIcon' = updateIcons(currentRow, TRUE)
               /\ tickFrames' = stopActiveTicker(rafId, tickFrames) + 1
               /\ rafId' = TRUE
               /\ UNCHANGED <<rowTime, rowDuration>>
          [] OTHER ->
               /\ rowBtnIcon' = updateIcons(currentRow, FALSE)
               /\ rowThumbIcon' = updateIcons(currentRow, FALSE)
               /\ tickFrames' = stopActiveTicker(rafId, tickFrames)
               /\ rafId' = FALSE
               /\ rowTime' = setRowTimeToDuration(rowTime, rowDuration, currentRow)
               /\ UNCHANGED rowDuration
  /\ UNCHANGED <<audioReady, currentRow, rowIsActive, probeLoaded, playerSrc, playerTitle,
                 playerPaused,
                 playerEnded, playerTime, playerHasMeta>>
  /\ UNCHANGED <<page, bootVars, tabVars, themeVars, mediaVars, statsVars, quotesVars,
                 reelsVars>>

\* the animation frame requested by the ticker runs tick()
TickFrameNeverStops ==
  /\ tickFrames > 0
  /\ rowTime' = IF currentRow # NoRow
                  THEN [rowTime EXCEPT ![currentRow] = formatTime(playerTime)]
                  ELSE rowTime
  /\ UNCHANGED <<tickFrames, rafId>>
  /\ UNCHANGED <<audioReady, currentRow, rowIsActive, rowDuration, rowBtnIcon, rowThumbIcon,
                 probeLoaded, playerSrc, playerTitle, playerPaused, playerEnded, playerTime,
                 playerHasMeta, playerEvents>>
  /\ UNCHANGED <<page, bootVars, tabVars, themeVars, mediaVars, statsVars, quotesVars,
                 reelsVars>>

TickFrame ==
  /\ tickFrames > 0
  /\ IF currentRow # NoRow /\ ~playerPaused /\ ~playerEnded
       THEN /\ rowTime' = [rowTime EXCEPT ![currentRow] = formatTime(playerTime)]
            /\ UNCHANGED <<tickFrames, rafId>>
       ELSE /\ tickFrames' = tickFrames - 1
            /\ rafId' = FALSE
            /\ UNCHANGED rowTime
  /\ UNCHANGED <<audioReady, currentRow, rowIsActive, rowDuration, rowBtnIcon, rowThumbIcon,
                 probeLoaded, playerSrc, playerTitle, playerPaused, playerEnded, playerTime,
                 playerHasMeta,
                 playerEvents>>
  /\ UNCHANGED <<page, bootVars, tabVars, themeVars, mediaVars, statsVars, quotesVars,
                 reelsVars>>

AudioNext ==
  \/ InitAudioLibrary
  \/ \E row \in Rows, event \in UiEvents, allowed \in BOOLEAN : AudioRowEvent(row, event, allowed)
  \/ \E row \in Rows : ProbeLoadedMetadata(row)
  \/ PlayerFetchesMetadata
  \/ PlayerAdvances
  \/ PlayerEvent
  \/ TickFrame

(***************************************************************************)
(* 13) Hero stats counter                                                  *)
(***************************************************************************)

NCounters == 2                  \* .c-counter elements under [data-stats]
FramesPerRun == 2               \* time steps that make up the 900 ms duration
MaxEntries == 2                 \* entries delivered to one observer callback

Counters == 1..NCounters
\* data-count-to / data-prefix / data-suffix of the page's counters
PageCounters == [c \in Counters |-> IF c % 2 = 1 THEN [to |-> 120, prefix |-> "+", suffix |-> "%"]
                                    ELSE [to |-> 7, prefix |-> "", suffix |-> ""]]
MarkupCounterText == "0"

\* `${prefix}${value}${suffix}`
counterLabel(d, value) == d.prefix \o ToString(value) \o d.suffix

\* Math.round(from + (to - from) * easeOutCubic(t)) with t = e / FramesPerRun
\* (e time steps elapsed, at most FramesPerRun since t = Math.min(1, ...))
easedValue(to, e) ==
  LET n3 == FramesPerRun * FramesPerRun * FramesPerRun
      r == FramesPerRun - e
  IN (2 * to * (n3 - r * r * r) + n3) \div (2 * n3)

\* animateCounter(el): text and pending frames of the counter afterwards
animateCounterIgnoresReducedMotion(reduced, d, text, frames) ==
  [text |-> text, frames |-> frames \cup {0}]

animateCounter(reduced, d, text, frames) ==
  IF reduced THEN [text |-> counterLabel(d, d.to), frames |-> frames]
  ELSE [text |-> text, frames |-> frames \cup {0}]

\* a tick that asks for another frame whatever t is
tickAlwaysAsksForFrame(d, e, frames) ==
  [text |-> counterLabel(d, easedValue(d.to, e)), frames |-> frames]

\* tick(now) of a loop that started e time steps ago
tick(d, e, frames) ==
  IF e < FramesPerRun
    THEN [text |-> counterLabel(d, easedValue(d.to, e)), frames |-> frames]
    ELSE [text |-> counterLabel(d, d.to), frames |-> frames \ {e}]

StatsMounted ==
  /\ statsReady = FALSE
  /\ statsObserving = FALSE
  /\ prefersReducedMotion \in BOOLEAN
  /\ counterData = PageCounters
  /\ counterText = [c \in Counters |-> MarkupCounterText]
  /\ counterTimers = [c \in Counters |-> 0]
  /\ counterFrames = [c \in Counters |-> {}]

\* A page without [data-stats]: initHeroStatsCounter returns at once.
StatsAbsent ==
  /\ statsReady = FALSE
  /\ statsObserving = FALSE
  /\ prefersReducedMotion = FALSE
  /\ counterData = PageCounters
  /\ counterText = [c \in Counters |-> MarkupCounterText]
  /\ counterTimers = [c \in Counters |-> 0]
  /\ counterFrames = [c \in Counters |-> {}]

\* DOMContentLoaded: initHeroStatsCounter() ... obs.observe(root)
InitHeroStatsCounter ==
  /\ page = "stats"
  /\ ~statsReady
  /\ statsReady' = TRUE
  /\ statsObserving' = TRUE
  /\ UNCHANGED <<prefersReducedMotion, counterData, counterText, counterTimers, counterFrames>>
  /\ UNCHANGED <<page, bootVars, tabVars, themeVars, mediaVars, quotesVars, reelsVars,
                 audioVars>>

\* The observer callback with `entries` (isIntersecting of each entry):
\* every intersecting entry calls runAll() and obs.disconnect().
NumIntersecting(entries) == Cardinality({i \in 1..Len(entries) : entries[i]})

ObserverCallback(entries) ==
  /\ statsObserving
  /\ counterTimers' = [c \in Counters |-> counterTimers[c] + NumIntersecting(entries)]
  /\ statsObserving' = (NumIntersecting(entries) = 0)
  /\ UNCHANGED <<statsReady, prefersReducedMotion, counterData, counterText, counterFrames>>
  /\ UNCHANGED <<page, bootVars, tabVars, themeVars, mediaVars, quotesVars, reelsVars,
                 audioVars>>

\* setTimeout(() => animateCounter(el), idx * 120) fires; the timers of one
\* runAll fire in index order.
CounterTimerFires(c) ==
  /\ counterTimers[c] > 0
  /\ \A b \in Counters : b < c => counterTimers[b] < counterTimers[c]
  /\ counterTimers' = [counterTimers EXCEPT ![c] = @ - 1]
  /\ LET r == animateCounter(prefersReducedMotion, counterData[c], counterText[c],
                             counterFrames[c])
     IN /\ counterText' = [counterText EXCEPT ![c] = r.text]
        /\ counterFrames' = [counterFrames EXCEPT ![c] = r.frames]
  /\ UNCHANGED <<statsReady, statsObserving, prefersReducedMotion, counterData>>
  /\ UNCHANGED <<page, bootVars, tabVars, themeVars, mediaVars, quotesVars, reelsVars,
                 audioVars>>

\* requestAnimationFrame(tick) fires for the loop of counter c that started e steps ago
CounterFrame(c, e) ==
  /\ e \in counterFrames[c]
  /\ LET r == tick(counterData[c], e, counterFrames[c])
     IN /\ counterText' = [counterText EXCEPT ![c] = r.text]
        /\ counterFrames' = [counterFrames EXCEPT ![c] = r.frames]
  /\ UNCHANGED <<statsReady, statsObserving, prefersReducedMotion, counterData, counterTimers>>
  /\ UNCHANGED <<page, bootVars, tabVars, themeVars, mediaVars, quotesVars, reelsVars,
                 audioVars>>

\* One time step passes for every running loop.
StatsTimePasses ==
  /\ \E c \in Counters : \E e \in counterFrames[c] : e < FramesPerRun
  /\ counterFrames' = [c \in Counters |->
                         {IF e < FramesPerRun THEN e + 1 ELSE e : e \in counterFrames[c]}]
  /\ UNCHANGED <<statsReady, statsObserving, prefersReducedMotion, counterData, counterText,
                 counterTimers>>
  /\ UNCHANGED <<page, bootVars, tabVars, themeVars, mediaVars, quotesVars, reelsVars,
                 audioVars>>

ObserverEntries == UNION {[1..n -> BOOLEAN] : n \in 1..MaxEntries}

StatsNext ==
  \/ InitHeroStatsCounter
  \/ \E entries \in ObserverEntries : ObserverCallback(entries)
  \/ \E c \in Counters : CounterTimerFires(c)
  \/ \E c \in Counters, e \in 0..FramesPerRun : CounterFrame(c, e)
  \/ StatsTimePasses

(***************************************************************************)
(* 14) Quotes spotlight                                                    *)
(***************************************************************************)

NItems == 3                     \* [data-q-item] elements of the section
MaxCopies == 2                  \* clipboard writes and feedback timers in flight

Items == 1..NItems
AR_QUOTE_TITLE == "{ar-documented-quote}"
AR_QUOTE_SOURCE == "{ar-source-when-available}"
AR_QUOTE_WHO == "{ar-saleh-al-arouri}"
DEFAULT_TYPE_ICON == "fa-regular fa-newspaper"

\* item.dataset of the section's items, in list order ("" = attribute missing)
PageQuotes ==
  [i \in Items |->
     [qId |-> "q" \o ToString(i),
      qText |-> IF i = 1 THEN "Alpha" ELSE IF i = 2 THEN "beta"
                ELSE IF i = 3 THEN "Gamma alpha" ELSE "",
      qYear |-> IF i % 2 = 1 THEN "2020" ELSE "",
      qTypeLabel |-> IF i = 2 THEN "Talk" ELSE "",
      qTypeIcon |-> "",
      qTitle |-> IF i = 1 THEN "T" ELSE "",
      qMeta |-> IF i = 3 THEN "Rally" ELSE "",
      qSource |-> "",
      qWho |-> ""]]

QuoteDataset(i) == PageQuotes[i]

\* a combining vowel mark (fatha, U+064E), written as an ASCII stand-in
AR_FATHA == "{U+064E}"

\* values typed into the search box
SearchValues == {"", "be" \o AR_FATHA \o "ta", " ALPHA ", "beta", "zz", "2020  rally", "q3"}

\* norm(s)
norm(s) == toLowerCase(trim(s))

\* [d.qText, d.qYear, d.qTypeLabel, d.qMeta, d.qSource, d.qId].map(norm).join(" ")
haystack(d) ==
  norm(d.qText) \o " " \o norm(d.qYear) \o " " \o norm(d.qTypeLabel) \o " " \o norm(d.qMeta)
    \o " " \o norm(d.qSource) \o " " \o norm(d.qId)

\* const match = !query || haystack.includes(query), for every search value
\* and item of the page
match == [q \in SearchValues |->
           [i \in Items |-> norm(q) = "" \/ includes(haystack(QuoteDataset(i)), norm(q))]]

\* getVisibleItems(): the items without u-hide, in list order
getVisibleItems(hidden) == {i \in Items : ~hidden[i]}
FirstOf(S) == CHOOSE i \in S : \A j \in S : i <= j

\* setActiveItem(active): the is-active classes afterwards
setActiveItemKeepsOthers(isActive, active) == [i \in Items |-> isActive[i] \/ i = active]

setActiveItem(isActive, active) == [i \in Items |-> i = active]

\* buildChip(typeLabel, typeIcon)
buildChip(typeLabel, typeIcon) ==
  "<i class=\"" \o (IF typeIcon # "" THEN typeIcon ELSE DEFAULT_TYPE_ICON)
    \o "\" aria-hidden=\"true\"></i>" \o (IF typeLabel # "" THEN " " \o typeLabel ELSE "")

\* renderFeatured(item): the featured view and featured.dataset afterwards,
\* for every item of the page
renderedItems ==
  [item \in Items |->
     LET d == QuoteDataset(item)
         source == IF d.qSource # "" THEN d.qSource ELSE AR_QUOTE_SOURCE
     IN [kicker |-> IF d.qTitle # "" THEN d.qTitle ELSE AR_QUOTE_TITLE,
         chip |-> buildChip(d.qTypeLabel,
                            IF d.qTypeIcon # "" THEN d.qTypeIcon ELSE DEFAULT_TYPE_ICON),
         text |-> d.qText,
         who |-> IF d.qWho # "" THEN d.qWho ELSE AR_QUOTE_WHO,
         meta |-> d.qMeta,
         sourceText |-> source,
         qActiveText |-> d.qText,
         qActiveMeta |-> d.qMeta,
         qActiveSource |-> source]]

\* renderFeatured without the write of featured.dataset.qActiveText
renderFeaturedSkipsHeldText(item) == [renderedItems[item] EXCEPT !.qActiveText = ""]

renderFeatured(item) == renderedItems[item]

\* getActiveItem(): NoItem (null) when nothing is visible
NoItem == 0

getActiveItemIgnoresHidden(isActive, hidden) ==
  IF \E i \in Items : isActive[i] THEN FirstOf({i \in Items : isActive[i]})
  ELSE FirstOf(Items)

getActiveItem(isActive, hidden) ==
  LET visible == getVisibleItems(hidden)
  IN IF visible = {} THEN NoItem
     ELSE IF \E i \in visible : isActive[i] THEN FirstOf({i \in visible : isActive[i]})
     ELSE FirstOf(visible)

MarkupFeatured ==
  [kicker |-> "", chip |-> "", text |-> "", who |-> "", meta |-> "", sourceText |-> "",
   qActiveText |-> "", qActiveMeta |-> "", qActiveSource |-> ""]

copyVars == <<qWrites, qCopyDone, qCopyTimers, qClipboard, qShared>>
listVars == <<quotesReady, qHasEmpty, qIsActive, qIsHidden, qEmptyHidden, qFeatured,
              qSearchValue, qFocus>>

\* The markup marks at most one item is-active and hides none.
QuotesMounted ==
  /\ quotesReady = FALSE
  /\ qHasEmpty \in BOOLEAN
  /\ qIsActive \in {[i \in Items |-> i = a] : a \in 0..NItems}
  /\ qIsHidden = [i \in Items |-> FALSE]
  /\ qEmptyHidden = TRUE
  /\ qFeatured = MarkupFeatured
  /\ qSearchValue = ""
  /\ qFocus = "none"
  /\ qWrites = {}
  /\ qCopyDone = FALSE
  /\ qCopyTimers = 0
  /\ qClipboard = ""
  /\ qShared = ""

\* A page without a .c-quotes section: bootQuotes finds nothing to initialize.
QuotesAbsent ==
  /\ quotesReady = FALSE
  /\ qHasEmpty = FALSE
  /\ qIsActive = [i \in Items |-> FALSE]
  /\ qIsHidden = [i \in Items |-> FALSE]
  /\ qEmptyHidden = TRUE
  /\ qFeatured = MarkupFeatured
  /\ qSearchValue = ""
  /\ qFocus = "none"
  /\ qWrites = {}
  /\ qCopyDone = FALSE
  /\ qCopyTimers = 0
  /\ qClipboard = ""
  /\ qShared = ""

\* initQuotesSpotlight(section): what it does to the quotes state
InitQuotesSpotlightEffects ==
  /\ quotesReady' = TRUE
  /\ LET initial == IF \E i \in Items : qIsActive[i]
                      THEN FirstOf({i \in Items : qIsActive[i]}) ELSE FirstOf(Items)
     IN /\ qFeatured' = renderFeatured(initial)
        /\ qIsActive' = setActiveItem(qIsActive, initial)
  /\ UNCHANGED <<qHasEmpty, qIsHidden, qEmptyHidden, qSearchValue, qFocus>>
  /\ UNCHANGED copyVars

\* bootQuotes -> initQuotesSpotlight(section): renderFeatured(initial)
InitQuotesSpotlight ==
  /\ page = "quotes"
  /\ ~quotesReady
  /\ InitQuotesSpotlightEffects
  /\ UNCHANGED <<page, bootVars, tabVars, themeVars, mediaVars, statsVars, reelsVars,
                 audioVars>>

\* click / keydown on a list item (a hidden item is not displayed and
\* receives neither; a key goes to the focused item)
QuoteSelect(item, event) ==
  /\ quotesReady
  /\ ~qIsHidden[item]
  /\ event.type = "keydown" => qFocus = QuoteDataset(item).qId
  /\ qFocus' = QuoteDataset(item).qId
  /\ IF event.type = "keydown" /\ event.key \notin {"Enter", " "}
       THEN UNCHANGED <<qFeatured, qIsActive>>
       ELSE /\ qFeatured' = renderFeatured(item)
            /\ qIsActive' = setActiveItem(qIsActive, item)
  /\ UNCHANGED <<quotesReady, qHasEmpty, qIsHidden, qEmptyHidden, qSearchValue>>
  /\ UNCHANGED copyVars
  /\ UNCHANGED <<page, bootVars, tabVars, themeVars, mediaVars, statsVars, reelsVars,
                 audioVars>>

\* step(dir): the item it renders and focuses (NoItem: early return)
step(isActive, hidden, dir) ==
  LET visible == getVisibleItems(hidden)
      active == getActiveItem(isActive, hidden)
      indexOf(x) == IF x \in visible THEN Cardinality({j \in visible : j < x}) ELSE 0 - 1
      i == IF indexOf(active) > 0 THEN indexOf(active) ELSE 0
      length == Cardinality(visible)
      nextIndex == IF dir = "next"
                     THEN (IF i + 1 < length - 1 THEN i + 1 ELSE length - 1)
                     ELSE (IF i - 1 > 0 THEN i - 1 ELSE 0)
  IN IF visible = {} THEN NoItem ELSE CHOOSE j \in visible : indexOf(j) = nextIndex

\* click on btnPrev / btnNext (the click leaves the focus on the button
\* unless step moves it to the item)
QuoteStep(dir) ==
  /\ quotesReady
  /\ LET nextItem == step(qIsActive, qIsHidden, dir)
     IN IF nextItem = NoItem
          THEN /\ UNCHANGED <<qFeatured, qIsActive>>
               /\ qFocus' = "button"
          ELSE /\ qFeatured' = renderFeatured(nextItem)
               /\ qIsActive' = setActiveItem(qIsActive, nextItem)
               /\ qFocus' = QuoteDataset(nextItem).qId
  /\ UNCHANGED <<quotesReady, qHasEmpty, qIsHidden, qEmptyHidden, qSearchValue>>
  /\ UNCHANGED copyVars
  /\ UNCHANGED <<page, bootVars, tabVars, themeVars, mediaVars, statsVars, reelsVars,
                 audioVars>>

\* input event of the search box: applySearch(e.target.value)
QuoteSearch(q) ==
  /\ quotesReady
  /\ qSearchValue' = q
  /\ LET hidden == [i \in Items |-> ~match[q][i]]
         shown == Cardinality(getVisibleItems(hidden))
         active == getActiveItem(qIsActive, hidden)
     IN /\ qIsHidden' = hidden
        /\ qEmptyHidden' = IF qHasEmpty THEN shown # 0 ELSE qEmptyHidden
        /\ IF active # NoItem
             THEN /\ qFeatured' = renderFeatured(active)
                  /\ qIsActive' = setActiveItem(qIsActive, active)
             ELSE UNCHANGED <<qFeatured, qIsActive>>
  /\ qFocus' = "search"
  /\ UNCHANGED <<quotesReady, qHasEmpty>>
  /\ UNCHANGED copyVars
  /\ UNCHANGED <<page, bootVars, tabVars, themeVars, mediaVars, statsVars, reelsVars,
                 audioVars>>

\* click on btnCopy: copyFeatured up to its await
CopyFeatured ==
  /\ quotesReady
  /\ Cardinality(qWrites) + qCopyTimers < MaxCopies
  /\ LET text == IF qFeatured.qActiveText # "" THEN qFeatured.qActiveText ELSE qFeatured.text
     IN qWrites' = IF text = "" THEN qWrites
                   ELSE qWrites \cup {[text |-> text, from |-> "copy"]}
  /\ qFocus' = "button"
  /\ UNCHANGED <<qCopyDone, qCopyTimers, qClipboard, qShared>>
  /\ UNCHANGED <<quotesReady, qHasEmpty, qIsActive, qIsHidden, qEmptyHidden, qFeatured,
                 qSearchValue>>
  /\ UNCHANGED <<page, bootVars, tabVars, themeVars, mediaVars, statsVars, reelsVars,
                 audioVars>>

\* click on btnShare: shareFeatured; navigator.share may be missing or reject
ShareFeatured(shareWorks) ==
  /\ quotesReady
  /\ Cardinality(qWrites) + qCopyTimers < MaxCopies
  /\ LET text == IF qFeatured.qActiveText # "" THEN qFeatured.qActiveText ELSE qFeatured.text
         meta == IF qFeatured.qActiveMeta # "" THEN qFeatured.qActiveMeta ELSE qFeatured.meta
         payload == IF meta # "" THEN text \o "\n\n- " \o meta ELSE text
     IN IF payload = "" THEN UNCHANGED <<qWrites, qShared>>
        ELSE IF shareWorks THEN qShared' = payload /\ UNCHANGED qWrites
        ELSE /\ qWrites' = qWrites \cup {[text |-> payload, from |-> "share"]}
             /\ UNCHANGED qShared
  /\ qFocus' = "button"
  /\ UNCHANGED <<qCopyDone, qCopyTimers, qClipboard>>
  /\ UNCHANGED <<quotesReady, qHasEmpty, qIsActive, qIsHidden, qEmptyHidden, qFeatured,
                 qSearchValue>>
  /\ UNCHANGED <<page, bootVars, tabVars, themeVars, mediaVars, statsVars, reelsVars,
                 audioVars>>

\* navigator.clipboard.writeText(text) resolves: copyFeatured continues
\* with the feedback class and its 700 ms reset timer
ClipboardResolves(w) ==
  /\ w \in qWrites
  /\ qWrites' = qWrites \ {w}
  /\ qClipboard' = w.text
  /\ IF w.from = "copy"
       THEN qCopyDone' = TRUE /\ qCopyTimers' = qCopyTimers + 1
       ELSE UNCHANGED <<qCopyDone, qCopyTimers>>
  /\ UNCHANGED qShared
  /\ UNCHANGED listVars
  /\ UNCHANGED <<page, bootVars, tabVars, themeVars, mediaVars, statsVars, reelsVars,
                 audioVars>>

\* navigator.clipboard.writeText(text) rejects: copyFeatured falls back to
\* a textarea and document.execCommand("copy"), which may fail as well
ClipboardRejects(w, execWorks) ==
  /\ w \in qWrites
  /\ qWrites' = qWrites \ {w}
  /\ qClipboard' = IF w.from = "copy" /\ execWorks THEN w.text ELSE qClipboard
  /\ UNCHANGED <<qCopyDone, qCopyTimers, qShared>>
  /\ UNCHANGED listVars
  /\ UNCHANGED <<page, bootVars, tabVars, themeVars, mediaVars, statsVars, reelsVars,
                 audioVars>>

\* setTimeout(() => btnCopy?.classList.remove("is-done"), 700) fires
CopyFeedbackReset ==
  /\ qCopyTimers > 0
  /\ qCopyTimers' = qCopyTimers - 1
  /\ qCopyDone' = FALSE
  /\ UNCHANGED <<qWrites, qClipboard, qShared>>
  /\ UNCHANGED listVars
  /\ UNCHANGED <<page, bootVars, tabVars, themeVars, mediaVars, statsVars, reelsVars,
                 audioVars>>

QuotesNext ==
  \/ InitQuotesSpotlight
  \/ \E item \in Items, event \in UiEvents : QuoteSelect(item, event)
  \/ \E dir \in {"prev", "next"} : QuoteStep(dir)
  \/ \E q \in SearchValues : QuoteSearch(q)
  \/ CopyFeatured
  \/ \E shareWorks \in BOOLEAN : ShareFeatured(shareWorks)
  \/ \E w \in qWrites : ClipboardResolves(w)
  \/ \E w \in qWrites, execWorks \in BOOLEAN : ClipboardRejects(w, execWorks)
  \/ CopyFeedbackReset

(***************************************************************************)
(* 15) Reels modal feed                                                    *)
(***************************************************************************)

NReels == 2                     \* [data-reel-card] elements of the page
MaxSettle == 2                  \* navigations and opens whose timers are in flight

Slides == 0..(NReels - 1)
NoSlide == 0 - 1
DEFAULT_REEL_TITLE == "{ar-reel-title}"
EM_DASH == "{em-dash}"

\* getReelDataFromCard(el) for the cards of the page, in document order;
\* hasRole: the card carries role="button"
ReelCards ==
  [c \in Slides |-> [id |-> "r" \o ToString(c),
                     title |-> IF c = 0 THEN DEFAULT_REEL_TITLE ELSE "Reel " \o ToString(c),
                     hasRole |-> c # 1]]

\* Math.max(0, index): a clamp without the upper limit
clampIndexFromBelowOnly(index, length) == IF index > 0 THEN index ELSE 0

\* Math.max(0, Math.min(index, length - 1))
clampIndex(index, length) ==
  LET m == IF index < length - 1 THEN index ELSE length - 1
  IN IF m > 0 THEN m ELSE 0

\* The reels state the handlers read and write
ReelState ==
  [activeIndex |-> rActiveIndex, allowScrollSync |-> rAllowScrollSync, paused |-> rPaused,
   dots |-> rDotIsActive, side |-> rSide, scrollTarget |-> rScrollTarget,
   settleTimers |-> rSettleTimers, playFrames |-> rPlayFrames]

SetReelState(st) ==
  /\ rActiveIndex' = st.activeIndex
  /\ rAllowScrollSync' = st.allowScrollSync
  /\ rPaused' = st.paused
  /\ rDotIsActive' = st.dots
  /\ rSide' = st.side
  /\ rScrollTarget' = st.scrollTarget
  /\ rSettleTimers' = st.settleTimers
  /\ rPlayFrames' = st.playFrames

\* pauseAllExcept(index): video.paused of the slides in the track
pauseAllExceptPausesNone(paused, built, index) == paused

pauseAllExcept(paused, built, index) ==
  IF built THEN [j \in Slides |-> IF j = index THEN paused[j] ELSE TRUE] ELSE paused

\* syncDots(index)
syncDotsKeepsOthers(dots, built, index) ==
  IF built THEN [j \in Slides |-> dots[j] \/ j = index] ELSE dots

syncDots(dots, built, index) ==
  IF built THEN [j \in Slides |-> j = index] ELSE dots

\* playAt(index): requests the frame that calls play() (the muted flag of
\* the videos is not part of the state)
playAt(st, built, index) ==
  IF built /\ index \in Slides
    THEN [st EXCEPT !.playFrames = @ \cup {index}]
    ELSE st

\* updateSide(d).title
updateSide(dataLen, index) ==
  IF index < dataLen THEN ReelCards[index].title ELSE EM_DASH

\* setActive(index)
setActive(st, built, dataLen, index) ==
  LET clamped == clampIndex(index, dataLen)
      st1 == [st EXCEPT !.activeIndex = clamped,
                        !.side = updateSide(dataLen, clamped),
                        !.paused = pauseAllExcept(st.paused, built, clamped),
                        !.dots = syncDots(st.dots, built, clamped)]
  IN playAt(st1, built, clamped)

\* goToIndex(index) with the viewport at scrollTop
goToIndexWithoutTimer(st, built, dataLen, scrollTop, index) ==
  LET clamped == clampIndex(index, NReels)
      st1 == [st EXCEPT !.allowScrollSync = FALSE,
                        !.scrollTarget = IF scrollTop = 2 * clamped THEN NoSlide ELSE clamped]
  IN IF ~built THEN st ELSE setActive(st1, built, dataLen, clamped)

goToIndex(st, built, dataLen, scrollTop, index) ==
  LET clamped == clampIndex(index, NReels)
      st1 == [st EXCEPT !.allowScrollSync = FALSE,
                        !.scrollTarget = IF scrollTop = 2 * clamped THEN NoSlide ELSE clamped,
                        !.settleTimers = @ + 1]
  IN IF ~built THEN st ELSE setActive(st1, built, dataLen, clamped)

\* calcActiveIndex(): clientHeight is 2 half slide heights while the modal
\* is displayed and 0 (so h = 1) while it is not
calcActiveIndex(scrollTop, displayed, dataLen) ==
  LET h == IF displayed THEN 2 ELSE 1
  IN clampIndex((2 * scrollTop + h) \div (2 * h), dataLen)

\* the viewport's scroll listener: the debounce timer afterwards
onScroll(allow, timer) == IF allow THEN TRUE ELSE timer

AllPaused == [j \in Slides |-> TRUE]
NoDots == [j \in Slides |-> FALSE]

\* The reels widget before initReelsModal, whatever ids the cards carry
ReelsIdle ==
  /\ reelsReady = FALSE
  /\ rModal = "closed"
  /\ rBuilt = FALSE
  /\ rDataLen = 0
  /\ rActiveIndex = 0
  /\ rAllowScrollSync = TRUE
  /\ rPaused = AllPaused
  /\ rDotIsActive = NoDots
  /\ rSide = ""
  /\ rScrollTop = 0
  /\ rScrollTarget = NoSlide
  /\ rScrollTimer = FALSE
  /\ rSettleTimers = 0
  /\ rShownListeners = 0
  /\ rOpenFrames = 0
  /\ rPlayFrames = {}
  /\ rStalePlays = FALSE
  /\ rDetachedPlaying = FALSE

\* Every card carries its own data-reel-id.
ReelsQuiet ==
  /\ ReelsIdle
  /\ rLastGoTo = "off"
  /\ rCardIds = [c \in Slides |-> ReelCards[c].id]

ReelsMounted == ReelsQuiet

\* A page without #reelsModal: initReelsModal returns at once.
ReelsAbsent == ReelsQuiet

\* DOMContentLoaded: initReelsModal()
InitReelsModal ==
  /\ page = "reels"
  /\ ~reelsReady
  /\ reelsReady' = TRUE
  /\ UNCHANGED <<rCardIds, rLastGoTo, rModal, rBuilt, rDataLen, rActiveIndex,
                 rAllowScrollSync, rPaused,
                 rDotIsActive, rSide, rScrollTop, rScrollTarget, rScrollTimer, rSettleTimers,
                 rShownListeners, rOpenFrames, rPlayFrames, rStalePlays, rDetachedPlaying>>
  /\ UNCHANGED <<page, bootVars, tabVars, themeVars, mediaVars, statsVars, quotesVars,
                 audioVars>>

\* click / keydown on a reel card: openFromTrigger(trigger) -> buildSlides.
\* The cards lie behind the modal's backdrop once it is shown.
ReelTrigger(c, event) ==
  /\ reelsReady
  /\ rModal \in {"closed", "opening"}
  /\ rShownListeners + rOpenFrames + rSettleTimers < MaxSettle
  /\ IF event.type = "keydown" /\ (~ReelCards[c].hasRole \/ event.key \notin ACTIVATION_KEYS)
       THEN UNCHANGED <<rModal, rBuilt, rDataLen, rActiveIndex, rPaused, rDotIsActive,
                        rShownListeners, rPlayFrames, rStalePlays>>
       ELSE /\ rBuilt' = TRUE
            /\ rDataLen' = NReels
            /\ rActiveIndex' =
                 LET found == {j \in Slides : rCardIds[j] = rCardIds[c]}
                 IN IF found = {} THEN 0 ELSE CHOOSE j \in found : \A k \in found : j <= k
            /\ rPaused' = AllPaused
            /\ rDotIsActive' = NoDots
            /\ rPlayFrames' = {}
            /\ rStalePlays' = (rStalePlays \/ rPlayFrames # {})
            /\ rModal' = ModalShow(rModal)
            /\ rShownListeners' = rShownListeners + 1
  /\ UNCHANGED <<rCardIds, rLastGoTo, reelsReady, rAllowScrollSync, rSide, rScrollTop,
                 rScrollTarget,
                 rScrollTimer,
                 rSettleTimers, rOpenFrames, rDetachedPlaying>>
  /\ UNCHANGED <<page, bootVars, tabVars, themeVars, mediaVars, statsVars, quotesVars,
                 audioVars>>

\* shown.bs.modal: every once-listener sets scrollTop = 0 and requests a frame
ReelsShown ==
  /\ rModal = "opening"
  /\ rModal' = "open"
  /\ rScrollTop' = IF rShownListeners > 0 THEN 0 ELSE rScrollTop
  /\ rOpenFrames' = rOpenFrames + rShownListeners
  /\ rShownListeners' = 0
  /\ UNCHANGED <<rCardIds, rLastGoTo, reelsReady, rBuilt, rDataLen, rActiveIndex,
                 rAllowScrollSync,
                 rPaused,
                 rDotIsActive, rSide, rScrollTarget, rScrollTimer, rSettleTimers, rPlayFrames,
                 rStalePlays, rDetachedPlaying>>
  /\ UNCHANGED <<page, bootVars, tabVars, themeVars, mediaVars, statsVars, quotesVars,
                 audioVars>>

\* the frame requested by the shown listener: goToIndex(state.activeIndex)
ReelsOpenFrame ==
  /\ rOpenFrames > 0
  /\ rOpenFrames' = rOpenFrames - 1
  /\ SetReelState(goToIndex(ReelState, rBuilt, rDataLen, rScrollTop, rActiveIndex))
  /\ rLastGoTo' = IF rBuilt /\ rLastGoTo # "off" THEN "open" ELSE rLastGoTo
  /\ UNCHANGED <<rCardIds, reelsReady, rModal, rBuilt, rDataLen, rScrollTop, rScrollTimer,
                 rShownListeners, rStalePlays, rDetachedPlaying>>
  /\ UNCHANGED <<page, bootVars, tabVars, themeVars, mediaVars, statsVars, quotesVars,
                 audioVars>>

\* click on btnPrev / btnNext, keydown ArrowUp / ArrowDown on the viewport
ReelsNavigate(via, delta) ==
  /\ reelsReady
  /\ rModal = "open"
  /\ rShownListeners + rOpenFrames + rSettleTimers < MaxSettle
  /\ SetReelState(goToIndex(ReelState, rBuilt, rDataLen, rScrollTop, rActiveIndex + delta))
  /\ rLastGoTo' = IF rBuilt /\ rLastGoTo # "off" THEN "nav" ELSE rLastGoTo
  /\ UNCHANGED <<rCardIds, reelsReady, rModal, rBuilt, rDataLen, rScrollTop, rScrollTimer,
                 rShownListeners, rOpenFrames, rStalePlays, rDetachedPlaying>>
  /\ UNCHANGED <<page, bootVars, tabVars, themeVars, mediaVars, statsVars, quotesVars,
                 audioVars>>

\* window.setTimeout(() => { state.allowScrollSync = true; }, 220) fires
ReelsSettle ==
  /\ rSettleTimers > 0
  /\ rSettleTimers' = rSettleTimers - 1
  /\ rAllowScrollSync' = TRUE
  /\ rLastGoTo' = IF rSettleTimers = 1 /\ rLastGoTo # "off" THEN "none" ELSE rLastGoTo
  /\ UNCHANGED <<rCardIds, reelsReady, rModal, rBuilt, rDataLen, rActiveIndex,
                 rPaused,
                 rDotIsActive,
                 rSide, rScrollTop, rScrollTarget, rScrollTimer,
                 rShownListeners, rOpenFrames, rPlayFrames, rStalePlays, rDetachedPlaying>>
  /\ UNCHANGED <<page, bootVars, tabVars, themeVars, mediaVars, statsVars, quotesVars,
                 audioVars>>

\* the user scrolls the viewport to pos (this ends a smooth scroll); the
\* scroll listener runs
ReelsUserScroll(pos) ==
  /\ reelsReady
  /\ rModal = "open"
  /\ rBuilt
  /\ pos # rScrollTop
  /\ rScrollTop' = pos
  /\ rScrollTarget' = NoSlide
  /\ rScrollTimer' = onScroll(rAllowScrollSync, rScrollTimer)
  /\ UNCHANGED <<rCardIds, rLastGoTo, reelsReady, rModal, rBuilt, rDataLen, rActiveIndex,
                 rAllowScrollSync, rPaused,
                 rDotIsActive, rSide, rSettleTimers, rShownListeners, rOpenFrames,
                 rPlayFrames, rStalePlays, rDetachedPlaying>>
  /\ UNCHANGED <<page, bootVars, tabVars, themeVars, mediaVars, statsVars, quotesVars,
                 audioVars>>

\* one frame of the smooth scroll started by scrollIntoView; the scroll
\* listener runs
ReelsSmoothScroll ==
  /\ rScrollTarget # NoSlide
  /\ rModal \in {"open", "closing"}
  /\ rScrollTop' = IF rScrollTop < 2 * rScrollTarget THEN rScrollTop + 1 ELSE rScrollTop - 1
  /\ rScrollTarget' = IF rScrollTop' = 2 * rScrollTarget THEN NoSlide ELSE rScrollTarget
  /\ rScrollTimer' = onScroll(rAllowScrollSync, rScrollTimer)
  /\ UNCHANGED <<rCardIds, rLastGoTo, reelsReady, rModal, rBuilt, rDataLen, rActiveIndex,
                 rAllowScrollSync, rPaused,
                 rDotIsActive, rSide, rSettleTimers, rShownListeners, rOpenFrames,
                 rPlayFrames, rStalePlays, rDetachedPlaying>>
  /\ UNCHANGED <<page, bootVars, tabVars, themeVars, mediaVars, statsVars, quotesVars,
                 audioVars>>

\* the 80 ms debounce timer fires: no scroll event has reset it for 80 ms,
\* so no smooth scroll is feeding the listener
ReelsScrollSync ==
  /\ rScrollTimer
  /\ ~(rScrollTarget # NoSlide /\ rAllowScrollSync)
  /\ rScrollTimer' = FALSE
  /\ LET idx == calcActiveIndex(rScrollTop, rModal # "closed", rDataLen)
     IN IF idx = rActiveIndex
          THEN UNCHANGED <<rActiveIndex, rAllowScrollSync, rPaused, rDotIsActive, rSide,
                           rScrollTarget, rSettleTimers, rPlayFrames>>
          ELSE SetReelState(setActive(ReelState, rBuilt, rDataLen, idx))
  /\ UNCHANGED <<rCardIds, rLastGoTo, reelsReady, rModal, rBuilt, rDataLen, rScrollTop,
                 rShownListeners,
                 rOpenFrames, rStalePlays, rDetachedPlaying>>
  /\ UNCHANGED <<page, bootVars, tabVars, themeVars, mediaVars, statsVars, quotesVars,
                 audioVars>>

\* the frame requested by playAt: v.play(), which the browser may reject
ReelsPlayFrame(j, allowed) ==
  /\ j \in rPlayFrames
  /\ rPlayFrames' = rPlayFrames \ {j}
  /\ rPaused' = IF allowed THEN [rPaused EXCEPT ![j] = FALSE] ELSE rPaused
  /\ UNCHANGED <<rCardIds, rLastGoTo, reelsReady, rModal, rBuilt, rDataLen, rActiveIndex,
                 rAllowScrollSync,
                 rDotIsActive, rSide, rScrollTop, rScrollTarget, rScrollTimer, rSettleTimers,
                 rShownListeners, rOpenFrames, rStalePlays, rDetachedPlaying>>
  /\ UNCHANGED <<page, bootVars, tabVars, themeVars, mediaVars, statsVars, quotesVars,
                 audioVars>>

\* the same frame when its video has been removed from the track meanwhile
ReelsStalePlayFrame(allowed) ==
  /\ rStalePlays
  /\ rStalePlays' = FALSE
  /\ rDetachedPlaying' = (rDetachedPlaying \/ allowed)
  /\ UNCHANGED <<rCardIds, rLastGoTo, reelsReady, rModal, rBuilt, rDataLen, rActiveIndex,
                 rAllowScrollSync, rPaused,
                 rDotIsActive, rSide, rScrollTop, rScrollTarget, rScrollTimer,
                 rSettleTimers, rShownListeners, rOpenFrames, rPlayFrames>>
  /\ UNCHANGED <<page, bootVars, tabVars, themeVars, mediaVars, statsVars, quotesVars,
                 audioVars>>

\* a slide is (partly) inside the viewport
InView(j) == rScrollTop - 2 * j < 2 /\ 2 * j - rScrollTop < 2

\* click on a slide's [data-reels-toggle] button: v.play(), which the
\* browser may reject, or v.pause() (a click on [data-reels-mute] changes
\* the muted flag and the button icon only)
ReelsSlideToggle(j, allowed) ==
  /\ reelsReady
  /\ rModal = "open"
  /\ rBuilt
  /\ InView(j)
  /\ rPaused' = [rPaused EXCEPT ![j] = IF rPaused[j] THEN ~allowed ELSE TRUE]
  /\ UNCHANGED <<rCardIds, rLastGoTo, reelsReady, rModal, rBuilt, rDataLen, rActiveIndex,
                 rAllowScrollSync,
                 rDotIsActive, rSide, rScrollTop, rScrollTarget, rScrollTimer, rSettleTimers,
                 rShownListeners, rOpenFrames, rPlayFrames, rStalePlays, rDetachedPlaying>>
  /\ UNCHANGED <<page, bootVars, tabVars, themeVars, mediaVars, statsVars, quotesVars,
                 audioVars>>

\* Bootstrap: the user dismisses the modal (close button, Esc, backdrop)
ReelsDismiss ==
  /\ rModal = "open"
  /\ rModal' = "closing"
  /\ UNCHANGED <<rCardIds, rLastGoTo, reelsReady, rBuilt, rDataLen, rActiveIndex,
                 rAllowScrollSync,
                 rPaused,
                 rDotIsActive, rSide, rScrollTop, rScrollTarget, rScrollTimer, rSettleTimers,
                 rShownListeners, rOpenFrames, rPlayFrames, rStalePlays, rDetachedPlaying>>
  /\ UNCHANGED <<page, bootVars, tabVars, themeVars, mediaVars, statsVars, quotesVars,
                 audioVars>>

\* hidden.bs.modal listener; the emptied, undisplayed viewport is at scrollTop 0
ReelsHidden ==
  /\ rModal = "closing"
  /\ rModal' = "closed"
  /\ rPaused' = AllPaused
  /\ rBuilt' = FALSE
  /\ rDotIsActive' = NoDots
  /\ rPlayFrames' = {}
  /\ rStalePlays' = (rStalePlays \/ rPlayFrames # {})
  /\ rScrollTop' = 0
  /\ rScrollTarget' = NoSlide
  /\ UNCHANGED <<rCardIds, rLastGoTo, reelsReady, rDataLen, rActiveIndex, rAllowScrollSync,
                 rSide,
                 rScrollTimer,
                 rSettleTimers, rShownListeners, rOpenFrames, rDetachedPlaying>>
  /\ UNCHANGED <<page, bootVars, tabVars, themeVars, mediaVars, statsVars, quotesVars,
                 audioVars>>

ReelsNext ==
  \/ InitReelsModal
  \/ \E c \in Slides, event \in UiEvents : ReelTrigger(c, event)
  \/ ReelsShown
  \/ ReelsOpenFrame
  \/ \E via \in {"button", "key"}, delta \in {0 - 1, 1} : ReelsNavigate(via, delta)
  \/ ReelsSettle
  \/ \E pos \in 0..(2 * (NReels - 1)) : ReelsUserScroll(pos)
  \/ ReelsSmoothScroll
  \/ ReelsScrollSync
  \/ \E j \in Slides, allowed \in BOOLEAN : ReelsPlayFrame(j, allowed)
  \/ \E allowed \in BOOLEAN : ReelsStalePlayFrame(allowed)
  \/ \E j \in Slides, allowed \in BOOLEAN : ReelsSlideToggle(j, allowed)
  \/ ReelsDismiss
  \/ ReelsHidden

(***************************************************************************)
(* 16) Main boot: evaluation of the script and DOMContentLoaded            *)
(***************************************************************************)

\* The initializers the main DOMContentLoaded listener calls, in call order
\* (those of the widgets modelled here)
MainBootOrder ==
  <<"bootTheme", "initTabs", "initMediaModals", "initThemeToggle", "initAudioLibrary",
    "initHeroStatsCounter", "initReelsModal">>

\* The listeners of one DOMContentLoaded dispatch run in registration
\* order: the initializers called, appended to log
RECURSIVE dispatchLog(_, _)
dispatchLog(listeners, log) ==
  IF listeners = <<>> THEN log
  ELSE dispatchLog(Tail(listeners),
                   log \o (IF Head(listeners) = "bootQuotes" THEN <<"initQuotesSpotlight">>
                           ELSE MainBootOrder))

HasListener(listeners, name) == \E i \in 1..Len(listeners) : listeners[i] = name

\* The document starts to load; the script has not been evaluated yet.
BootStart ==
  /\ readyState = "loading"
  /\ scriptRun = FALSE
  /\ dclListeners = <<>>
  /\ dclFired = FALSE
  /\ bootLog = <<>>

\* A page whose load is not under study
BootQuiet ==
  /\ readyState = "complete"
  /\ scriptRun = TRUE
  /\ dclListeners = <<>>
  /\ dclFired = TRUE
  /\ bootLog = <<>>

\* The browser evaluates script.js from top to bottom: the quotes IIFE
\* registers bootQuotes or calls it at once, then the main boot listener is
\* registered.  (A classic script runs while the document is loading, a
\* deferred one when it is interactive, an injected or async one at any time.)
ScriptEvaluates ==
  /\ page = "boot"
  /\ ~scriptRun
  /\ scriptRun' = TRUE
  /\ IF readyState = "loading"
       THEN /\ dclListeners' = dclListeners \o <<"bootQuotes", "main">>
            /\ UNCHANGED <<bootLog, quotesVars>>
       ELSE /\ dclListeners' = Append(dclListeners, "main")
            /\ bootLog' = Append(bootLog, "initQuotesSpotlight")
            /\ InitQuotesSpotlightEffects
  /\ UNCHANGED <<page, readyState, dclFired, tabVars, themeVars, mediaVars, statsVars,
                 reelsVars, audioVars>>

\* The parser reaches the end of the document.
ParsingEnds ==
  /\ page = "boot"
  /\ readyState = "loading"
  /\ readyState' = "interactive"
  /\ UNCHANGED <<page, scriptRun, dclListeners, dclFired, bootLog, tabVars, themeVars,
                 mediaVars, statsVars, quotesVars, reelsVars, audioVars>>

\* DOMContentLoaded is dispatched: the listeners registered so far run in
\* registration order.  The other widgets' roots are missing on this page,
\* so their initializers return at once.
DomContentLoaded ==
  /\ page = "boot"
  /\ readyState = "interactive"
  /\ ~dclFired
  /\ dclFired' = TRUE
  /\ bootLog' = dispatchLog(dclListeners, bootLog)
  /\ IF HasListener(dclListeners, "bootQuotes")
       THEN InitQuotesSpotlightEffects ELSE UNCHANGED quotesVars
  /\ IF HasListener(dclListeners, "main")
       THEN BootThemeEffects ELSE UNCHANGED themeVars
  /\ UNCHANGED <<page, readyState, scriptRun, dclListeners, tabVars, mediaVars, statsVars,
                 reelsVars, audioVars>>

\* The load event: every resource of the document has arrived.
LoadCompletes ==
  /\ page = "boot"
  /\ readyState = "interactive"
  /\ dclFired
  /\ readyState' = "complete"
  /\ UNCHANGED <<page, scriptRun, dclListeners, dclFired, bootLog, tabVars, themeVars,
                 mediaVars, statsVars, quotesVars, reelsVars, audioVars>>

BootNext == ScriptEvaluates \/ ParsingEnds \/ DomContentLoaded \/ LoadCompletes

(***************************************************************************)
(* Specifications: one page per widget                                     *)
(***************************************************************************)

\* The page of widget w: w is mounted, every other widget's root is missing.
Page(w) ==
  /\ page = w
  /\ BootQuiet
  /\ IF w = "tabs" THEN TabsMounted ELSE TabsAbsent
  /\ IF w = "theme" THEN ThemeMounted ELSE ThemeQuiet
  /\ IF w = "media" THEN MediaMounted ELSE MediaAbsent
  /\ IF w = "stats" THEN StatsMounted ELSE StatsAbsent
  /\ IF w = "quotes" THEN QuotesMounted ELSE QuotesAbsent
  /\ IF w = "reels" THEN ReelsMounted ELSE ReelsAbsent
  /\ IF w = "audio" THEN AudioMounted ELSE AudioAbsent

TabsPage == Page("tabs")
SpecTabs == TabsPage /\ [][TabsNext]_vars

ThemePage == Page("theme")
SpecTheme == ThemePage /\ [][ThemeNext]_vars

MediaPage == Page("media")
SpecMedia == MediaPage /\ [][MediaNext]_vars

StatsPage == Page("stats")
SpecStats == StatsPage /\ [][StatsNext]_vars

\* While the page is shown the browser keeps going: a timer set by runAll
\* fires, time passes for the running loops, or the frame of a loop whose
\* time is up is delivered.
StatsBrowserStep ==
  \/ \E c \in Counters : CounterTimerFires(c)
  \/ \E c \in Counters : CounterFrame(c, FramesPerRun)
  \/ StatsTimePasses

SpecStatsLive == StatsPage /\ [][StatsNext]_vars /\ WF_vars(StatsBrowserStep)

QuotesPage == Page("quotes")
SpecQuotes == QuotesPage /\ [][QuotesNext]_vars

ReelsPage == Page("reels")
SpecReels == ReelsPage /\ [][ReelsNext]_vars

\* The reels page with its timers running: a settle timer that has been
\* set fires after its 220 ms. The steps are those that read or write the
\* scroll position, the timers and state.allowScrollSync; the frames that
\* play a slide and the clicks on a slide's toggle touch none of them.
ReelsScrollNext ==
  \/ InitReelsModal
  \/ \E c \in Slides, event \in UiEvents : ReelTrigger(c, event)
  \/ ReelsShown
  \/ ReelsOpenFrame
  \/ \E via \in {"button", "key"}, delta \in {0 - 1, 1} : ReelsNavigate(via, delta)
  \/ ReelsSettle
  \/ \E pos \in 0..(2 * (NReels - 1)) : ReelsUserScroll(pos)
  \/ ReelsSmoothScroll
  \/ ReelsScrollSync
  \/ ReelsDismiss
  \/ ReelsHidden
SpecReelsLive == ReelsPage /\ [][ReelsScrollNext]_vars /\ WF_vars(ReelsSettle)

AudioPage == Page("audio")
SpecAudio == AudioPage /\ [][AudioNext]_vars

\* The audio page in a visible tab: the browser runs every requested
\* animation frame and dispatches every queued media event.
SpecAudioLive ==
  AudioPage /\ [][AudioNext]_vars /\ WF_vars(TickFrame) /\ WF_vars(PlayerEvent)

\* The load of a page that carries the theme toggle and a quotes section
BootPage ==
  /\ page = "boot"
  /\ BootStart
  /\ TabsAbsent /\ MediaAbsent /\ StatsAbsent /\ ReelsAbsent /\ AudioAbsent
  /\ ThemeMounted
  /\ QuotesMounted
SpecBoot == BootPage /\ [][BootNext]_vars

\* The reels page with the origin of the settle timers recorded
ReelsNavPage ==
  /\ page = "reels"
  /\ BootQuiet
  /\ TabsAbsent /\ ThemeQuiet /\ MediaAbsent /\ StatsAbsent /\ QuotesAbsent /\ AudioAbsent
  /\ ReelsIdle
  /\ rLastGoTo = "none"
  /\ rCardIds = [c \in Slides |-> ReelCards[c].id]
SpecReelsNav == ReelsNavPage /\ [][ReelsNext]_vars

\* The reels page for every assignment of data-reel-id values to its cards
ReelIds == {"", "r0"}
ReelsPoolPage ==
  /\ page = "reels"
  /\ BootQuiet
  /\ TabsAbsent /\ ThemeQuiet /\ MediaAbsent /\ StatsAbsent /\ QuotesAbsent /\ AudioAbsent
  /\ ReelsIdle
  /\ rLastGoTo = "off"
  /\ rCardIds \in [Slides -> ReelIds]
SpecReelsPool == ReelsPoolPage /\ [][ReelsNext]_vars

\* A page that carries one of the three list widgets
ListWidgets == {"audio", "quotes", "reels"}
ListsPage == \E w \in ListWidgets : Page(w)
ListsNext == AudioNext \/ QuotesNext \/ ReelsNext
SpecLists == ListsPage /\ [][ListsNext]_vars

(***************************************************************************)
(* Claims                                                                  *)
(***************************************************************************)

\* ---- C1 ---------------------------------------------------------------
ActiveTabsOf(g) == {t \in TabsOf(g) : tabIsActive[t]}
VisiblePanelsOf(g) == {p \in rootPanels[g] : panelIsVisible[p]}

TabGroupConsistent(g) ==
  /\ Cardinality(ActiveTabsOf(g)) = 1
  /\ Cardinality(VisiblePanelsOf(g)) = 1
  /\ \A t \in ActiveTabsOf(g), p \in VisiblePanelsOf(g) : PanelKey(p) = tabTarget[t]

\* The group's root holds no panel of another root, and every tab's key
\* tags exactly one panel under the root.
TabGroupWellFormed(g) ==
  /\ \A h \in TabGroups \ {g} : rootPanels[h] \cap rootPanels[g] = {}
  /\ \A t \in TabsOf(g) :
       /\ tabTarget[t] # ""
       /\ Cardinality({p \in rootPanels[g] : PanelKey(p) = tabTarget[t]}) = 1

\* C1 (as claimed): once initTabs has run, every tab group has exactly one
\* active tab and exactly one visible panel, whose key is the active tab's
\* target key, after any sequence of activations.
C1_EveryTabGroupConsistent ==
  tabsReady => \A g \in TabGroups : TabGroupConsistent(g)

\* C1 (amended): the same, for every tab group whose root shares no panel
\* with another group's root and whose tabs each name a key that tags
\* exactly one panel under the root.
C1_WellFormedTabGroupConsistent ==
  tabsReady => \A g \in TabGroups : TabGroupWellFormed(g) => TabGroupConsistent(g)

\* C1 witness: a well-formed group in which a tab other than the first one
\* has been activated.
C1_Witness ==
  /\ tabsReady
  /\ \E g \in TabGroups : TabGroupWellFormed(g) /\ tabIsActive[<<g, 2>>]

\* ---- C3 ---------------------------------------------------------------
\* C3: booting with no persisted preference while the OS reports dark gives
\* a dark resolved theme; and once the user has toggled to light, no later
\* OS preference change alters the resolved theme: it stays light.
C3_ExplicitLightSurvivesSystemChange ==
  [][ /\ (~themeReady /\ themeReady' /\ bootStored' = Null /\ systemIsDark) => bodyIsDark'
      /\ (themeReady /\ bootStored = Null /\ bootSystemIsDark /\ toggleNext = "light"
            /\ systemIsDark' # systemIsDark) => ~bodyIsDark'
    ]_vars

\* ---- C5 ---------------------------------------------------------------
\* C5: from the modal's hidden event until the next open, the video mount
\* point holds no video, audio or iframe element, whatever was mounted by
\* the open before.
C5_ClosedModalHasEmptyMount ==
  (mediaReady /\ mediaModal = "closed") => mediaMount.tag \notin {"video", "audio", "iframe"}

\* C5 witness: the modal is closed again after an open that mounted media
\* (has-video is only ever set by such an open).
C5_Witness ==
  mediaReady /\ mediaModal = "closed" /\ mediaHasVideo /\ mediaMount = EmptyMount

\* ---- C7 ---------------------------------------------------------------
\* C7: with reduced motion every counter shows either its markup text or
\* prefix + target + suffix, never a value in between, and no animation
\* frame is ever scheduled for it.
C7_ReducedMotionJumpsToTarget ==
  prefersReducedMotion =>
    \A c \in Counters :
      /\ counterText[c] \in {MarkupCounterText, counterLabel(counterData[c], counterData[c].to)}
      /\ counterFrames[c] = {}

\* C7 witness: reduced motion, and a counter has been set to its target.
C7_Witness ==
  /\ prefersReducedMotion
  /\ \E c \in Counters :
       /\ counterData[c].to = 120
       /\ counterText[c] = "+120%"

\* ---- C4 ---------------------------------------------------------------
\* C4: whenever a search hides the item that is featured, the featured view
\* and the active marker move to the first visible item in list order; if
\* no item stays visible, the empty state of the section is shown.
C4_SearchReassignsFeatured ==
  [][ \A a \in Items :
        (quotesReady /\ qIsActive[a] /\ ~qIsHidden[a] /\ qIsHidden'[a]) =>
          IF \E i \in Items : ~qIsHidden'[i]
            THEN LET first == FirstOf({i \in Items : ~qIsHidden'[i]})
                 IN /\ qIsActive' = [i \in Items |-> i = first]
                    /\ qFeatured' = renderFeatured(first)
            ELSE qHasEmpty => ~qEmptyHidden'
    ]_vars

\* C4 witness: the search "2020  rally" has been applied, it hides items 1
\* and 2 (item 1 is the one featured by initialization), and the first
\* visible item, item 3, is featured and active.
C4_Witness ==
  /\ quotesReady
  /\ qSearchValue = "2020  rally"
  /\ qIsHidden[1] /\ qIsHidden[2] /\ ~qIsHidden[3]
  /\ qIsActive[3]
  /\ qFeatured.text = "Gamma alpha"

\* ---- C9 ---------------------------------------------------------------
\* C9: after every filter change, whatever the query, no hidden item carries
\* the active marker.
C9_NoHiddenItemIsActive ==
  \A i \in Items : qIsHidden[i] => ~qIsActive[i]

\* ---- C6 ---------------------------------------------------------------
\* C6 (as stated): for every slide k, when the scroll debounce fires with the
\* modal open and the viewport exactly at slide k's offset, slide k is the
\* active slide, its video is playing (or its play request waits for the
\* next frame) and every other slide's video is paused.
C6_SettledScrollPlaysSlide ==
  [][ \A k \in Slides :
        (rScrollTimer /\ ~rScrollTimer' /\ rModal = "open" /\ rScrollTop = 2 * k) =>
          /\ rActiveIndex' = k
          /\ (~rPaused'[k] \/ k \in rPlayFrames')
          /\ \A j \in Slides \ {k} : rPaused'[j]
    ]_vars

\* C6 (amended): when the debounce fires at slide k's offset and k is not
\* the active slide yet, k becomes active, its dot alone is marked, every
\* other video is paused and a play request for k waits for the next frame;
\* when k is the active slide already, nothing changes.
C6_ScrollSyncActivatesSlide ==
  [][ \A k \in Slides :
        (rScrollTimer /\ ~rScrollTimer' /\ rModal = "open" /\ rScrollTop = 2 * k) =>
          IF k # rActiveIndex
            THEN /\ rActiveIndex' = k
                 /\ k \in rPlayFrames'
                 /\ \A j \in Slides \ {k} : rPaused'[j]
                 /\ rDotIsActive' = [j \in Slides |-> j = k]
            ELSE UNCHANGED <<rActiveIndex, rPaused, rPlayFrames, rDotIsActive>>
    ]_vars

\* C6 witness: the feed was opened and scrolled, the debounce has fired at
\* slide 1's offset with scroll sync enabled, and slide 1 plays alone.
C6_Witness ==
  /\ rModal = "open"
  /\ rScrollTop = 2 /\ rScrollTarget = NoSlide
  /\ ~rScrollTimer /\ rAllowScrollSync /\ rSettleTimers = 0
  /\ rActiveIndex = 1 /\ rDotIsActive[1]
  /\ ~rPaused[1] /\ rPaused[0]
  /\ rPlayFrames = {}

\* ---- C10 --------------------------------------------------------------
\* C10: while the reels modal is closed after a close, the track holds no
\* slide and no reel video is playing, also when a play request deferred to
\* an animation frame before the close runs after it.
C10_NoPlaybackAfterClose ==
  rModal = "closed" =>
    /\ ~rBuilt
    /\ \A j \in Slides : rPaused[j]
    /\ ~rDetachedPlaying

\* ---- C2 ---------------------------------------------------------------
\* C2 (as stated): when row B is activated while another row A is playing,
\* B alone is marked active, and A's time text is A's full duration if A's
\* probe has reported it and the placeholder if A was never probed.
C2_SwitchShowsProbedDuration ==
  [][ \A A \in Rows, B \in Rows :
        (A # B /\ currentRow = A /\ ~playerPaused /\ currentRow' = B) =>
          /\ rowIsActive' = [r \in Rows |-> r = B]
          /\ rowTime'[A] = IF probeLoaded[A] THEN formatTime(TrackDuration(A)) ELSE PLACEHOLDER
    ]_vars

\* C2 (amended): when row B is activated while another row A is playing, B
\* alone is marked active, and A's time text is A's full duration if that
\* duration is known (from A's probe or from the shared player's metadata
\* while A was loaded) and the placeholder otherwise.
C2_SwitchShowsKnownDuration ==
  [][ \A A \in Rows, B \in Rows :
        (A # B /\ currentRow = A /\ ~playerPaused /\ currentRow' = B) =>
          /\ rowIsActive' = [r \in Rows |-> r = B]
          /\ rowDuration[A] \in {Undefined, TrackDuration(A)}
          /\ rowTime'[A] = IF rowDuration[A] # Undefined THEN formatTime(TrackDuration(A))
                           ELSE PLACEHOLDER
    ]_vars

\* C2 witness: row 2 was activated after row 1 had played; row 2 alone is
\* active and row 1, never probed, shows the duration the player reported.
C2_Witness ==
  /\ currentRow = 2
  /\ playerSrc = 2
  /\ rowIsActive = [r \in Rows |-> r = 2]
  /\ ~probeLoaded[1]
  /\ rowTime[1] = "1:00"

\* ---- C8 ---------------------------------------------------------------
\* C8: in every reachable state at most one audio row, at most one quote
\* item and at most one reels dot carries the active marker.
C8_AtMostOneActiveItem ==
  /\ Cardinality({r \in Rows : rowIsActive[r]}) <= 1
  /\ Cardinality({i \in Items : qIsActive[i]}) <= 1
  /\ Cardinality({j \in Slides : rDotIsActive[j]}) <= 1

\* C8 witness: a second audio row has been activated after the first one
\* and only the second carries the marker.
C8_Witness ==
  /\ currentRow = 2
  /\ rowDuration[1] # Undefined
  /\ rowIsActive[2] /\ ~rowIsActive[1]

\* C11: whenever the active slide changes, and whenever a frame requested by
\* playAt starts a video, only the slide at the active index may be playing:
\* a step that changes the active index of a built track leaves every other
\* slide paused, and a play frame only ever starts the active slide's video.
C11_OnlyActiveSlidePlays ==
  [][/\ (rBuilt' /\ rActiveIndex' # rActiveIndex)
          => \A k \in Slides : k # rActiveIndex' => rPaused'[k]
     /\ \A j \in Slides :
          (j \in rPlayFrames /\ j \notin rPlayFrames' /\ rPaused[j] /\ ~rPaused'[j])
            => j = rActiveIndex]_vars

\* ---- C12 --------------------------------------------------------------
\* C12: on a switch from the active row A to another row B, by the time any
\* effect of B is in place (B is currentRow, B carries is-active, the player
\* panel shows B, the player's source is B's URL) A's media is paused and
\* A's time text shows formatTime of A's duration: A is undone before B is
\* applied, at every statement of the handler.
C12_OldRowUndoneBeforeNewRow ==
  [][(currentRow # NoRow /\ currentRow' # currentRow) =>
       \A allowed \in BOOLEAN :
         LET A == currentRow
             B == currentRow'
             after == switchStatements(AudioState, B, allowed)
         IN \A i \in 1..Len(after) :
              (\/ after[i].currentRow = B
               \/ after[i].isActive[B]
               \/ after[i].title = B
               \/ after[i].src = B)
                => /\ after[i].media = A => after[i].player.paused
                   /\ after[i].times[A] = formatTime(rowDuration[A])]_vars

\* ---- C13 --------------------------------------------------------------
\* C13: in every reachable state at most one animation frame of the
\* playback ticker is pending, and rafId is set exactly when one is: the
\* play listener cancels the pending frame before it requests a new one.
C13_AtMostOneTickerFrame ==
  /\ tickFrames <= 1
  /\ rafId <=> (tickFrames = 1)

\* C13 witness: row 1 was playing with its ticker frame pending when row 2
\* was activated; the reload dispatched no pause event, so the play listener
\* is about to start a ticker while that frame is still pending.
C13_Witness ==
  /\ currentRow = 2
  /\ rowBtnIcon[1] = "fa-pause"
  /\ playerEvents # <<>>
  /\ Head(playerEvents) = "play"
  /\ rafId
  /\ tickFrames = 1

\* ---- C14 --------------------------------------------------------------
\* C14: a click or an activation key on the row that is already currentRow
\* only toggles the shared player: a playing player is paused, a paused or
\* ended one is asked to play (the browser may refuse, which changes
\* nothing); the active row, the is-active marker, the player panel, the
\* source and the rows' time texts stay as they are and nothing is reloaded
\* (the metadata and the queued media events are kept).
C14_SameRowOnlyToggles ==
  [][\A row \in Rows, event \in UiEvents, allowed \in BOOLEAN :
       (/\ currentRow = row
        /\ event.type = "click" \/ event.key \in ACTIVATION_KEYS
        /\ AudioRowEvent(row, event, allowed))
         => /\ UNCHANGED <<currentRow, rowIsActive, playerTitle, playerSrc, rowTime>>
            /\ playerHasMeta' = playerHasMeta
            /\ Len(playerEvents') >= Len(playerEvents)
            /\ SubSeq(playerEvents', 1, Len(playerEvents)) = playerEvents
            /\ playerPaused' = IF ~playerPaused /\ ~playerEnded THEN TRUE
                               ELSE IF allowed THEN FALSE ELSE playerPaused]_vars

\* C14 witness: the active row was activated again while it played; the
\* player is paused before the end of the track with its pause event queued
\* last, and row, source and metadata are those of before.
C14_Witness ==
  /\ currentRow = 1
  /\ playerSrc = 1
  /\ rowIsActive = [r \in Rows |-> r = 1]
  /\ playerHasMeta
  /\ playerPaused /\ ~playerEnded
  /\ playerEvents # <<>>
  /\ playerEvents[Len(playerEvents)] = "pause"

\* ---- C15 --------------------------------------------------------------
\* C15: for every row the play button and the thumbnail overlay show the
\* same icon, and, once every media event dispatched so far has reached its
\* listener, a row shows the pause icon only if it is currentRow and the
\* shared player is playing.
C15_IconsShowPlayerState ==
  /\ \A r \in Rows : rowBtnIcon[r] = rowThumbIcon[r]
  /\ playerEvents = <<>> =>
       \A r \in Rows :
         rowBtnIcon[r] = "fa-pause" => (r = currentRow /\ ~playerPaused /\ ~playerEnded)

\* ---- C16 --------------------------------------------------------------
\* C16 (as stated): every click on the toggle flips the resolved theme and
\* persists the new choice: afterwards the stored preference is light or
\* dark and names the resolved theme; a second click right after it would
\* restore the resolved theme of before.
C16_ToggleFlipsAndPersists ==
  [][ToggleTheme =>
       /\ bodyIsDark' = ~bodyIsDark
       /\ storedTheme' \in {"light", "dark"}
       /\ (storedTheme' = "dark") <=> bodyIsDark'
       /\ toggleClick(toggleClick(ThemeState)).bodyIsDark = bodyIsDark]_vars

\* C16 (amended): every click on the toggle flips the resolved theme, sets
\* data-theme to the new explicit theme, and a second click right after it
\* would restore the resolved theme of before; the new choice is persisted
\* when storage is available (the stored preference is then light or dark
\* and names the resolved theme) and storage is left as it was when it is not.
C16_ToggleFlipsAndPersistsIfStorage ==
  [][ToggleTheme =>
       /\ bodyIsDark' = ~bodyIsDark
       /\ dataTheme' = (IF bodyIsDark' THEN "dark" ELSE "light")
       /\ IF storageOk
            THEN storedTheme' = dataTheme'
            ELSE storedTheme' = storedTheme
       /\ toggleClick(toggleClick(ThemeState)).bodyIsDark = bodyIsDark]_vars

\* C16 witness: the toggle was clicked from a dark resolved theme with
\* storage available: the resolved theme is light and "light" is stored.
C16_Witness ==
  /\ themeReady
  /\ storageOk
  /\ toggleNext = "light"
  /\ storedTheme = "light"
  /\ dataTheme = "light"
  /\ ~bodyIsDark

C18_SessionOnlyChoiceStays ==
  [][(~storageOk /\ themeReady /\ toggleNext # Null /\ systemIsDark' # systemIsDark)
       => /\ safeStorageGet(storageOk, storedTheme) = Null
          /\ bodyIsDark' = (toggleNext = "dark")
          /\ dataTheme' = toggleNext]_vars

\* ---- C19 --------------------------------------------------------------
\* C19: on page load bootTheme is the first initializer to be called: every
\* other initializer in the call order has bootTheme before it, and no
\* widget is initialized while the theme has not been applied.
C19_ThemeBootsFirst ==
  /\ \A i \in 1..Len(bootLog) :
       bootLog[i] # "bootTheme" => \E j \in 1..(i - 1) : bootLog[j] = "bootTheme"
  /\ quotesReady => themeReady

\* ---- C20 --------------------------------------------------------------
\* C20: a click or an activation key on reel card c rebuilds the track with
\* one slide per card of the pool and opens the modal with the active index
\* equal to c, the position of the triggering card in the pool.
C20_OpensAtTriggeringCard ==
  [][\A c \in Slides, event \in UiEvents :
       (/\ event.type = "click" \/ (ReelCards[c].hasRole /\ event.key \in ACTIVATION_KEYS)
        /\ ReelTrigger(c, event))
         => /\ rBuilt'
            /\ rDataLen' = NReels
            /\ rModal' \in {"opening", "open"}
            /\ rActiveIndex' = c]_vars

\* ---- C21 --------------------------------------------------------------
\* C21: while the settle timer of a prev/next or arrow-key navigation is
\* pending, no firing of the scroll debounce timer changes the active index.
\* (Timers of equal delay fire in the order they were set, so the newest
\* settle timer is pending as long as any is.)
C21_NoScrollSyncWhileSettling ==
  [][(/\ rLastGoTo = "nav"
      /\ rSettleTimers > 0
      /\ rScrollTimer /\ ~rScrollTimer')
       => rActiveIndex' = rActiveIndex]_vars

\* C22: a click on Prev or Next moves the featured quote to the
\* neighbouring visible item in list order, stays put at either end, and
\* the featured quote is a visible item afterwards.
C22_StepClampedAndVisible ==
  [][\A dir \in {"prev", "next"} :
       QuoteStep(dir) =>
         \E cur, new \in Items :
           LET visible == getVisibleItems(qIsHidden)
               ahead == {j \in visible : IF dir = "next" THEN j > cur ELSE j < cur}
               nearest == CHOOSE j \in ahead :
                            \A k \in ahead : IF dir = "next" THEN j <= k ELSE j >= k
           IN /\ qFeatured = renderFeatured(cur)
              /\ qFeatured' = renderFeatured(new)
              /\ new \in visible
              /\ new = IF ahead = {} THEN cur ELSE nearest]_vars

\* C23: a click on a list item, or Enter or Space on it, fills the featured
\* view from that item's data attributes (with the defaults for missing
\* ones) and leaves that item as the only one marked active.
C23_SelectRendersAndMarks ==
  [][\A item \in Items, event \in UiEvents :
       (/\ handleActivation(event)
        /\ qSearchValue' = qSearchValue /\ qWrites' = qWrites
        /\ QuoteSelect(item, event)) =>
         LET d == QuoteDataset(item)
         IN /\ qFeatured' = renderFeatured(item)
            /\ qFeatured'.text = d.qText
            /\ qFeatured'.meta = d.qMeta
            /\ qFeatured'.qActiveText = d.qText
            /\ qFeatured'.qActiveMeta = d.qMeta
            /\ qFeatured'.kicker \in {d.qTitle, AR_QUOTE_TITLE}
            /\ qFeatured'.sourceText \in {d.qSource, AR_QUOTE_SOURCE}
            /\ \A i \in Items : qIsActive'[i] <=> i = item]_vars

\* the second item has been selected in the unfiltered list
C23_Witness ==
  /\ quotesReady
  /\ qSearchValue = ""
  /\ qFocus = QuoteDataset(2).qId
  /\ qFeatured = renderFeatured(2)
  /\ qIsActive = [i \in Items |-> i = 2]

\* C24 as stated: whatever the page, a trigger whose video URL ends in .mp4
\* (a query string may follow) mounts a native video with the poster, one
\* whose URL names an embeddable host and is not .mp4 mounts an iframe, one
\* without a video URL or of kind photo / audio shows the fallback image
\* over an empty mount, and exactly one of the three is on display.
C24_MediaBranchesOnUrlShape ==
  [][\A d \in MediaDatasets, event \in UiEvents :
       (MediaTrigger(d, event) /\ handleActivation(event)) =>
         LET mp4 == d.modalVideo \in {"v/a.mp4", "v/a.MP4?t=3", "https://cdn.x/a.mp4"}
             embed == d.modalVideo \in {"https://www.youtube.com/embed/a",
                                        "//player.vimeo.com/video/1",
                                        "https://cdn.x/a.mp4.html"}
             still == \/ d.modalVideo = ""
                      \/ toLowerCase(d.mediaType) \in {"photo", "audio"}
             poster == IF d.modalImage # "" THEN d.modalImage ELSE DEFAULT_IMAGE
         IN /\ still => mediaFallbackShown' /\ mediaMount' = EmptyMount
            /\ (~still /\ mp4) =>
                 mediaMount' = [tag |-> "video", src |-> d.modalVideo, poster |-> poster]
            /\ (~still /\ embed) =>
                 mediaMount' = [tag |-> "iframe", src |-> d.modalVideo, poster |-> ""]
            /\ mediaFallbackShown' <=> mediaMount'.tag \notin {"video", "iframe"}]_vars

\* C24, amended: the same in a modal that has the video mount element, where
\* every other video URL is mounted as a native video too; in a modal
\* without the mount element every trigger leaves the fallback image on
\* display and nothing is mounted.
C24_MediaBranchesOnUrlShapeWithMount ==
  [][\A d \in MediaDatasets, event \in UiEvents :
       (MediaTrigger(d, event) /\ handleActivation(event)) =>
         LET mp4 == d.modalVideo \in {"v/a.mp4", "v/a.MP4?t=3", "https://cdn.x/a.mp4"}
             embed == d.modalVideo \in {"https://www.youtube.com/embed/a",
                                        "//player.vimeo.com/video/1",
                                        "https://cdn.x/a.mp4.html"}
             still == \/ d.modalVideo = ""
                      \/ toLowerCase(d.mediaType) \in {"photo", "audio"}
             poster == IF d.modalImage # "" THEN d.modalImage ELSE DEFAULT_IMAGE
         IN /\ mediaImg'.src = poster
            /\ mediaFallbackShown' <=> mediaMount'.tag \notin {"video", "iframe"}
            /\ IF mediaHasMount
                 THEN /\ still => mediaFallbackShown' /\ mediaMount' = EmptyMount
                      /\ (~still /\ (mp4 \/ ~embed)) =>
                           mediaMount' = [tag |-> "video", src |-> d.modalVideo,
                                          poster |-> poster]
                      /\ (~still /\ embed) =>
                           mediaMount' = [tag |-> "iframe", src |-> d.modalVideo,
                                          poster |-> ""]
                 ELSE mediaFallbackShown' /\ mediaMount' = EmptyMount]_vars

\* an .mp4 URL with a query string has been mounted as a native video with
\* the trigger's poster, and the fallback image is off
C24_Witness ==
  /\ mediaModal = "opening"
  /\ mediaMount = [tag |-> "video", src |-> "v/a.MP4?t=3", poster |-> "img/p.png"]
  /\ ~mediaFallbackShown

\* C25: what the modal shows after a trigger has opened it (texts, chip
\* visibility, image, mounted media, fallback visibility, has-video class)
\* is what the same trigger yields on the freshly loaded page, whatever was
\* opened, closed or left mounted before.
C25_OpenRehydratesFromScratch ==
  [][\A d \in MediaDatasets, event \in UiEvents :
       (MediaTrigger(d, event) /\ handleActivation(event)) =>
         LET fresh == [mount |-> EmptyMount, img |-> [src |-> "", alt |-> ""],
                       fallbackShown |-> TRUE, hasVideo |-> FALSE]
         IN /\ mediaText' = updateModalText(d)
            /\ <<mediaMount', mediaImg', mediaFallbackShown', mediaHasVideo'>>
                 = <<renderMedia(fresh, mediaHasMount, d).mount,
                     renderMedia(fresh, mediaHasMount, d).img,
                     renderMedia(fresh, mediaHasMount, d).fallbackShown,
                     renderMedia(fresh, mediaHasMount, d).hasVideo>>]_vars

\* the modal is open on a trigger without video, badge or duration: the
\* mount is empty, the duration chip hidden, the fallback image on display
C25_Witness ==
  /\ mediaModal = "open"
  /\ mediaHasMount
  /\ mediaText.durationHidden
  /\ mediaText.kind = AR_MEDIA
  /\ mediaMount = EmptyMount
  /\ mediaFallbackShown
  /\ ~mediaHasVideo
  /\ mediaImg.src = DEFAULT_IMAGE

\* C26: the counters' run is started at most once: a step schedules the
\* animation of a counter only while the observer is connected, it
\* schedules it once, and it disconnects the observer for good.
C26_CountersRunAtMostOnce ==
  [][/\ \A c \in Counters :
          counterTimers'[c] > counterTimers[c] =>
            /\ statsObserving /\ ~statsObserving'
            /\ counterTimers'[c] = counterTimers[c] + 1
     /\ (statsReady /\ ~statsObserving) => ~statsObserving']_vars

\* C27: at any time at most one timer of a kind is pending per widget: one
\* scroll-sync debounce timer of the reels viewport, one timer that takes
\* the is-done feedback off the quotes copy button.
C27_AtMostOnePendingTimer ==
  /\ rScrollTimer \in BOOLEAN
  /\ qCopyTimers <= 1

\* C28 as stated: a row whose probe has not reported a duration shows the
\* placeholder whenever it is not the row loaded in the player.
C28_UnprobedRowShowsPlaceholder ==
  \A r \in Rows :
    (audioReady /\ ~probeLoaded[r] /\ r # currentRow) => rowTime[r] = PLACEHOLDER

\* C28, amended: such a row shows the placeholder until the shared player has
\* loaded its metadata, and the duration the player reported from then on.
C28_UnprobedRowShowsPlaceholderUntilPlayed ==
  \A r \in Rows :
    (audioReady /\ ~probeLoaded[r] /\ r # currentRow) =>
      /\ rowDuration[r] \in {Undefined, TrackDuration(r)}
      /\ rowTime[r] = IF rowDuration[r] = Undefined THEN PLACEHOLDER
                      ELSE formatTime(TrackDuration(r))

\* row 1 is loaded in the player; row 2, whose probe has not answered and
\* which has never been loaded, shows the placeholder
C28_Witness ==
  /\ currentRow = 1
  /\ ~playerPaused
  /\ ~probeLoaded[2]
  /\ rowDuration[2] = Undefined
  /\ rowTime[2] = PLACEHOLDER

\* C29: after a search an item is visible exactly when the query, taken
\* without surrounding blanks, letter case and vowel marks, occurs in the
\* item's searchable fields joined by blanks and taken the same way; the
\* empty query shows every item.
C29_SearchIgnoresCaseAndDiacritics ==
  [][\A q \in SearchValues :
       (qFocus' = "search" /\ qSearchValue' = q /\ QuoteSearch(q)) =>
         LET plain == CASE q = " ALPHA " -> "alpha"
                        [] q = "be" \o AR_FATHA \o "ta" -> "beta"
                        [] OTHER -> q
         IN \A i \in Items :
              ~qIsHidden'[i] <=>
                (plain = "" \/ includes(haystack(QuoteDataset(i)), plain))]_vars

\* C30: when the roots of the two tab groups hold disjoint sets of panels,
\* activating a tab of one group changes neither the active marker of a
\* tab nor the visibility of a panel of the other group.
C30_DisjointTabGroupsIndependent ==
  [][\A t \in AllTabs, event \in UiEvents :
       (/\ rootPanels[1] \cap rootPanels[2] = {}
        /\ TabEvent(t, event)) =>
         \A h \in TabGroups \ {t[1]} :
           /\ \A u \in TabsOf(h) : tabIsActive'[u] = tabIsActive[u]
           /\ \A p \in rootPanels[h] : panelIsVisible'[p] = panelIsVisible[p]]_vars

\* the groups are disjoint; the second tab of group 1 has been activated
\* while group 2 still shows its first tab and first panel
C30_Witness ==
  /\ tabsReady
  /\ rootPanels = [g \in TabGroups |-> PanelsOf(g)]
  /\ tabIsActive = [t \in AllTabs |-> t \in {<<1, 2>>, <<2, 1>>}]
  /\ panelIsVisible[<<2, 1>>] /\ ~panelIsVisible[<<2, 2>>]
  /\ \E p \in PanelsOf(1) : panelIsVisible[p] /\ PanelKey(p) = tabTarget[<<1, 2>>]

\* C31: once the player is paused or has ended, the ticker comes to rest
\* unless playback starts again: no frame callback stays pending, and while
\* the player stays paused the current row's time text is not written from
\* the elapsed time (it changes only to the row's duration).
C31_TickerStopsAfterPause ==
  /\ (audioReady /\ (playerPaused \/ playerEnded))
       ~> (tickFrames = 0 \/ (~playerPaused /\ ~playerEnded))
  /\ [][\A r \in Rows :
          (/\ currentRow = r /\ currentRow' = r
           /\ (playerPaused \/ playerEnded) /\ (playerPaused' \/ playerEnded')
           /\ rowTime'[r] # rowTime[r])
            => rowTime'[r] = formatTime(rowDuration[r])]_vars

\* row 1 has played for a while and was paused: the pause event has been
\* handled and no ticker frame is pending
C31_Witness ==
  /\ currentRow = 1
  /\ playerPaused /\ ~playerEnded
  /\ playerTime > 0
  /\ playerEvents = <<>>
  /\ tickFrames = 0
  /\ ~rafId
  /\ rowBtnIcon[1] = "fa-play"

\* C32: whenever a navigation has switched scroll-driven sync off, sync is
\* switched on again later: the flag never stays off for good.
C32_ScrollSyncReenabled ==
  (~rAllowScrollSync) ~> rAllowScrollSync

\* the modal is open on the second slide after a navigation, every settle
\* timer has fired and sync is on again
C32_Witness ==
  /\ rModal = "open"
  /\ rActiveIndex = 1
  /\ rAllowScrollSync
  /\ rSettleTimers = 0
  /\ rShownListeners = 0 /\ rOpenFrames = 0
  /\ rScrollTop = 2

\* The animation of counter c is over: no timer of runAll and no animation
\* frame is pending for it.
CounterDone(c) == counterTimers[c] = 0 /\ counterFrames[c] = {}

\* C33: without reduced motion, once the observer has triggered runAll every
\* counter's animation terminates; the frame that ends a tick loop (t = 1)
\* writes prefix + target + suffix and asks for no further frame; whenever
\* the animation is over the text is prefix + target + suffix; and
\* once the animation is over no timer or frame is pending for that counter
\* ever again.
C33_CounterAnimationTerminates ==
  /\ (statsReady /\ ~statsObserving /\ ~prefersReducedMotion)
       ~> (\A c \in Counters :
             /\ CounterDone(c)
             /\ counterText[c] = counterLabel(counterData[c], counterData[c].to))
  /\ [][\A c \in Counters :
          /\ (~prefersReducedMotion /\ CounterFrame(c, FramesPerRun))
               => /\ counterText'[c] = counterLabel(counterData[c], counterData[c].to)
                  /\ FramesPerRun \notin counterFrames'[c]
          /\ (statsReady /\ ~statsObserving /\ ~prefersReducedMotion /\ CounterDone(c))
               => /\ counterText[c] = counterLabel(counterData[c], counterData[c].to)
                  /\ counterTimers'[c] = 0
                  /\ counterFrames'[c] = {}
                  /\ counterText'[c] = counterText[c]]_vars

\* C33 witness: without reduced motion both counters have finished, each
\* showing its target.
C33_Witness ==
  /\ ~prefersReducedMotion
  /\ statsReady
  /\ ~statsObserving
  /\ \A c \in Counters : CounterDone(c)
  /\ counterText[1] = "+120%"
  /\ counterText[2] = "7"

\* C34: after a boot that read the persisted preference "light" while the
\* OS reported dark, and as long as the toggle has not been clicked, the
\* root's data-theme is "light" and the body has no dark marker, whatever
\* the OS preference has changed to since.
C34_PersistedLightBeatsDarkOs ==
  (themeReady /\ bootStored = "light" /\ bootSystemIsDark /\ toggleNext = Null)
    => (dataTheme = "light" /\ ~bodyIsDark)

\* C34 witness: booted with "light" stored under a dark OS, and the OS has
\* changed to light since.
C34_Witness ==
  /\ themeReady
  /\ bootStored = "light"
  /\ bootSystemIsDark
  /\ ~systemIsDark
  /\ toggleNext = Null
  /\ dataTheme = "light"
  /\ ~bodyIsDark

\* C35: in every state after bootTheme the body carries the dark marker
\* exactly when the resolved theme is dark (data-theme is "dark", or there is
\* no data-theme and the OS prefers dark), and the toggle control, where the
\* page has one, is pressed exactly when the body is dark.
C35_DarkMarkerPressedAndResolvedAgree ==
  themeReady =>
    /\ bodyIsDark <=> (dataTheme = "dark" \/ (dataTheme = Null /\ systemIsDark))
    /\ hasToggle => ToString(ariaPressed) = ToString(bodyIsDark)

\* C35 witness: after a click on the toggle made the page light, the OS
\* preference being dark.
C35_Witness ==
  /\ themeReady
  /\ hasToggle
  /\ toggleNext = "light"
  /\ systemIsDark
  /\ dataTheme = "light"
  /\ ~bodyIsDark
  /\ ariaPressed = FALSE

\* C36: in every state in which a row is the current one, the shared
\* player's source holds that row's audio URL, which is not empty, and that
\* row is the only one marked active.
C36_PlayerSourceIsActiveRow ==
  currentRow # NoRow =>
    /\ playerSrc # NoRow
    /\ RowUrl(playerSrc) = RowUrl(currentRow)
    /\ RowUrl(currentRow) # ""
    /\ \A r \in Rows : rowIsActive[r] <=> r = currentRow

\* C36 witness: row 2 was activated after row 1 had been loaded; the play
\* event of that request is still queued and no metadata has arrived, and
\* the source is row 2's URL.
C36_Witness ==
  /\ currentRow = 2
  /\ RowUrl(playerSrc) = "audio/t2.mp3"
  /\ rowTime[1] = "1:00"
  /\ playerEvents = <<"play">>
  /\ ~playerPaused
  /\ ~playerHasMeta

\* C37: in every state the active index is at least 0, and below the number
\* of reels whenever the reel list is not empty.
C37_ActiveIndexInRange ==
  /\ rActiveIndex >= 0
  /\ rDataLen > 0 => rActiveIndex < rDataLen

\* C37 witness: the modal is open on the last reel, which plays, and no
\* timer or frame is pending.
C37_Witness ==
  /\ rModal = "open"
  /\ rDataLen = 2
  /\ rActiveIndex = 1
  /\ rDotIsActive[1]
  /\ ~rPaused[1]
  /\ rSettleTimers = 0
  /\ rPlayFrames = {}
  /\ ~rScrollTimer

\* C38: while the settle timer of the most recent programmatic navigation
\* is pending (timers of equal delay fire in the order they were set, so
\* that is while any settle timer is pending), scroll-driven sync is
\* suppressed.
C38_SyncSuppressedUntilLastSettle ==
  rSettleTimers > 0 => ~rAllowScrollSync

\* C39: in every state after initialization exactly one list item carries
\* the active marker, and both the text held for Copy and Share and the
\* text shown in the featured view are that item's text.
C39_FeaturedTextIsActiveItemText ==
  quotesReady =>
    \E a \in Items :
      /\ \A i \in Items : qIsActive[i] <=> i = a
      /\ qFeatured.qActiveText = QuoteDataset(a).qText
      /\ qFeatured.text = QuoteDataset(a).qText

\* C39 witness: after the second item was made active a search matched no
\* item; the featured view still holds the second item's text.
C39_Witness ==
  /\ quotesReady
  /\ qSearchValue = "zz"
  /\ \A i \in Items : qIsHidden[i]
  /\ qIsActive[2]
  /\ qFeatured.qActiveText = "beta"
  /\ qFeatured.text = "beta"

====
